---- MODULE Spec2Model ----
(***************************************************************************)
(* A model of src/src/index.ts (the Raindrop.io MCP server): the gateway   *)
(* client (request / handleResponse), the derived operations built on it   *)
(* (watchCollection, createHighlight, updateHighlight, deleteHighlight),   *)
(* the bulk-create tool handler and the toolHandler wrapper.               *)
(*                                                                         *)
(* Every tool invocation lives in a slot of `calls`.  An invocation runs   *)
(* atomically from one await of a network request to the next; the remote  *)
(* service answers each outstanding request in a step of its own, so that  *)
(* invocations in different slots interleave at their awaits exactly as    *)
(* the single-threaded event loop lets them.                               *)
(*                                                                         *)
(* JavaScript `undefined` is modelled by the absence of a record field.    *)
(***************************************************************************)
EXTENDS Integers, Sequences, FiniteSets, TLC

VARIABLES
    clock,            \* the wall clock read by `new Date()`, in milliseconds
    watchTimestamps,  \* the module-level Map<number, string>, as a function on its keys
    raindrops,        \* the remote service's bookmarks: id -> item
    nextHighlightId,  \* the remote service's counter for new highlight ids
    calls             \* slot -> the tool invocation running in it

vars == <<clock, watchTimestamps, raindrops, nextHighlightId, calls>>

-----------------------------------------------------------------------------
(* Bounds of the model *)

MaxTime == 2
MaxItems == 2
MaxHighlights == 2
MaxBulk == 3

Has(r, f) == f \in DOMAIN r

Min(a, b) == IF a < b THEN a ELSE b

-----------------------------------------------------------------------------
(* Timestamps.  A timestamp string is a record: `iso` strings are what     *)
(* Date.prototype.toISOString produces (millisecond precision, so parsing  *)
(* one gives back the instant); the empty string and a string that is no   *)
(* date are the other strings a caller or the service can supply.          *)

NaN == -1

toISOString(t) == [kind |-> "iso", t |-> t]

EmptyString == [kind |-> "empty", t |-> 0]

InvalidDateString == [kind |-> "invalid", t |-> 0]

\* new Date(s).getTime(): NaN for a string that is not a date
DateOf(s) == IF s.kind = "iso" THEN s.t ELSE NaN

\* a > b on two Dates: false as soon as one of them is NaN
DateGreater(a, b) == a # NaN /\ b # NaN /\ a > b

\* JavaScript truthiness of a string
Truthy(s) == s.kind # "empty"

Times == 0..MaxTime

TimeStrings == {toISOString(t) : t \in Times} \cup {EmptyString, InvalidDateString}

-----------------------------------------------------------------------------
(* Titles are sequences of characters. *)

IsSpace(ch) == ch = " "

RECURSIVE trimStart(_)
trimStart(s) == IF s # <<>> /\ IsSpace(Head(s)) THEN trimStart(Tail(s)) ELSE s

RECURSIVE trimEnd(_)
trimEnd(s) ==
    IF s # <<>> /\ IsSpace(s[Len(s)]) THEN trimEnd(SubSeq(s, 1, Len(s) - 1)) ELSE s

trim(s) == trimEnd(trimStart(s))

startsWith(s, ch) == s # <<>> /\ Head(s) = ch

endsWith(s, ch) == s # <<>> /\ s[Len(s)] = ch

\* String.prototype.slice(1, -1)
slice1(s) == IF Len(s) < 2 THEN <<>> ELSE SubSeq(s, 2, Len(s) - 1)

\* a variant of cleanTitle that does not trim
cleanTitle_noTrim(title) ==
    IF \/ (startsWith(title, "\"") /\ endsWith(title, "\""))
       \/ (startsWith(title, "'") /\ endsWith(title, "'"))
    THEN slice1(title)
    ELSE title

cleanTitle(title) ==
    LET cleaned == trim(title)
    IN  IF \/ (startsWith(cleaned, "\"") /\ endsWith(cleaned, "\""))
           \/ (startsWith(cleaned, "'") /\ endsWith(cleaned, "'"))
        THEN slice1(cleaned)
        ELSE cleaned

\* one record of a payload: only a `title` key is rewritten
cleanTitlesInRecord(item) ==
    IF Has(item, "title") THEN [item EXCEPT !.title = cleanTitle(@)] ELSE item

\* cleanTitlesInData on the envelopes of this model: {result, item} and
\* {result, items}; no other key of them holds a title
cleanTitlesInData(data) ==
    IF Has(data, "item") THEN [data EXCEPT !.item = cleanTitlesInRecord(@)]
    ELSE IF Has(data, "items")
         THEN [data EXCEPT !.items = [k \in DOMAIN @ |-> cleanTitlesInRecord(@[k])]]
         ELSE data

-----------------------------------------------------------------------------
(* Thrown values and settled results *)

\* new Error(message)
Error(message) == [instanceofError |-> TRUE, message |-> message]

Throw(error) == [threw |-> TRUE, error |-> error]

Return(value) == [threw |-> FALSE, value |-> value]

-----------------------------------------------------------------------------
(* The gateway client *)

AUTH_TOKEN == "token"

API_BASE_URL == "https://api.raindrop.io/rest/v1"

\* this.headers, set by the constructor
headers(token) ==
    [Authorization |-> <<"Bearer ", token>>, ContentType |-> "application/json"]

\* buildUrl: the path under the base URL, with the stringified query parameters
buildUrl(path, params) == [base |-> API_BASE_URL, path |-> path, params |-> params]

NoParams == <<>>

\* what request() hands to fetch
Fetch(url, method) ==
    [url |-> url, method |-> method, headers |-> headers(AUTH_TOKEN)]

FetchBody(url, method, body) ==
    [url |-> url, method |-> method, body |-> body, headers |-> headers(AUTH_TOKEN)]

\* The answers of the remote service that are not a success.  `rejected` is
\* fetch itself rejecting (no HTTP response); `json` tells whether the body parses.
FailureResponses ==
    { [rejected |-> TRUE],
      [rejected |-> FALSE, ok |-> FALSE, status |-> 502, statusText |-> "Bad Gateway",
       json |-> FALSE],
      [rejected |-> FALSE, ok |-> FALSE, status |-> 401, statusText |-> "Unauthorized",
       json |-> TRUE, data |-> [result |-> FALSE, errorMessage |-> "Incorrect access_token"]],
      [rejected |-> FALSE, ok |-> FALSE, status |-> 404, statusText |-> "Not Found",
       json |-> TRUE, data |-> [result |-> FALSE, error |-> "not_found"]],
      [rejected |-> FALSE, ok |-> FALSE, status |-> 500, statusText |-> "Server Error",
       json |-> TRUE, data |-> [statusCode |-> 500]],
      [rejected |-> FALSE, ok |-> TRUE, status |-> 200, statusText |-> "OK",
       json |-> TRUE, data |-> [result |-> FALSE]] }

\* a 200 answer carrying `data`
OkResponse(data) ==
    [rejected |-> FALSE, ok |-> TRUE, status |-> 200, statusText |-> "OK",
     json |-> TRUE, data |-> data]

\* a || b on strings that may be undefined: the first one present and not ""
FirstTruthy(r, f, rest) == IF Has(r, f) /\ r[f] # "" THEN r[f] ELSE rest

\* a variant of handleResponse that prefers `error` to `errorMessage`
handleResponse_errorFirst(response) ==
    IF ~response.json
    THEN Throw(Error(<<"Failed to parse JSON response: ", response.status,
                       response.statusText>>))
    ELSE LET parsedData == response.data
         IN  IF ~response.ok \/ (Has(parsedData, "result") /\ parsedData.result = FALSE)
             THEN Throw(Error(
                     FirstTruthy(parsedData, "error",
                         FirstTruthy(parsedData, "errorMessage",
                             <<"API request failed: ", response.status>>))))
             ELSE Return(cleanTitlesInData(parsedData))

handleResponse(response) ==
    IF ~response.json
    THEN Throw(Error(<<"Failed to parse JSON response: ", response.status,
                       response.statusText>>))
    ELSE LET parsedData == response.data
         IN  IF ~response.ok \/ (Has(parsedData, "result") /\ parsedData.result = FALSE)
             THEN Throw(Error(
                     FirstTruthy(parsedData, "errorMessage",
                         FirstTruthy(parsedData, "error",
                             <<"API request failed: ", response.status>>))))
             ELSE Return(cleanTitlesInData(parsedData))

\* request(): the settled value of `await fetchFn(...)` followed by handleResponse
request(response) ==
    IF response.rejected
    THEN Throw(Error("fetch failed"))
    ELSE handleResponse(response)

-----------------------------------------------------------------------------
(* Response helpers and the tool wrapper *)

\* JSON.stringify(data, null, 2)
JSONstringify(data) == [json |-> data]

createSuccessResponse(text) == [content |-> <<[type |-> "text", text |-> text]>>]

createJsonResponse(data) == createSuccessResponse(JSONstringify(data))

createErrorResponse(error) ==
    LET message == IF error.instanceofError THEN error.message ELSE <<"String", error>>
    IN  [content |-> <<[type |-> "text", text |-> <<"Error: ", message>>]>>,
         isError |-> TRUE]

\* a variant of handleMinimalResponse that ignores the flag
handleMinimalResponse_never(data, minimal) == createJsonResponse(data)

handleMinimalResponse(data, minimal) ==
    IF minimal THEN createSuccessResponse("ok") ELSE createJsonResponse(data)

handleMessageResponse(message, minimal) ==
    createSuccessResponse(IF minimal THEN "ok" ELSE message)

\* a variant of toolHandler without the catch: a failure of the handler propagates
toolHandler_noCatch(outcome) ==
    IF outcome.threw
    THEN [settled |-> "rejected", reason |-> outcome.error]
    ELSE [settled |-> "fulfilled", response |-> outcome.value]

\* toolHandler: how the promise returned to the transport settles, given how
\* `await handler(params)` settled
toolHandler(outcome) ==
    IF outcome.threw
    THEN [settled |-> "fulfilled", response |-> createErrorResponse(outcome.error)]
    ELSE [settled |-> "fulfilled", response |-> outcome.value]

-----------------------------------------------------------------------------
(* Invocation slots *)

Idle == [tool |-> "none", pc |-> "idle"]

Slots == DOMAIN calls

\* `ghost` is history kept for the properties: the clock and the remote or
\* cursor state at the moment of the invocation, and how each request of the
\* invocation was answered; no step reads it.
Answered(call, result) ==
    [call EXCEPT !.ghost.answers = Append(@, IF result.threw THEN "failed" ELSE "ok")]

\* the invocation `call` ends: the wrapper settles with `outcome`
Finish(call, outcome) ==
    [tool |-> call.tool, pc |-> "done", args |-> call.args, log |-> call.log,
     loc |-> call.loc, ghost |-> call.ghost, outcome |-> outcome,
     result |-> toolHandler(outcome)]

-----------------------------------------------------------------------------
(* Map<number, string> operations on watchTimestamps *)

EmptyMap == [k \in {} |-> EmptyString]

MapHas(m, k) == k \in DOMAIN m

\* a variant of MapSet that creates an entry and never overwrites one
MapSet_onlyNew(m, k, v) ==
    [x \in DOMAIN m \cup {k} |-> IF x \in DOMAIN m THEN m[x] ELSE v]

MapSet(m, k, v) == [x \in DOMAIN m \cup {k} |-> IF x = k THEN v ELSE m[x]]

-----------------------------------------------------------------------------
(* watchCollection *)

Collections == {1, 2}

WATCH_PERPAGE == 50

QuotedTitle == <<"\"", "a", "\"">>

\* the arguments the transport can deliver: `since` and `resetWatch` are optional
WatchArgs ==
    LET base == {[collectionId |-> c] : c \in Collections}
        withSince == {[collectionId |-> b.collectionId, since |-> s] :
                        b \in base, s \in TimeStrings}
        plain == base \cup withSince
        withReset(a, r) ==
            IF Has(a, "since")
            THEN [collectionId |-> a.collectionId, since |-> a.since, resetWatch |-> r]
            ELSE [collectionId |-> a.collectionId, resetWatch |-> r]
    IN  plain \cup {withReset(a, r) : a \in plain, r \in BOOLEAN}

\* the bookmarks the remote listing can hold at position k when it is served:
\* created at any instant up to then, with a `created` that is no date, or with
\* no `created` key at all
RemoteItems(k) ==
    {[_id |-> k, title |-> QuotedTitle, created |-> s] :
        s \in {toISOString(t) : t \in 0..clock} \cup {InvalidDateString}}
        \cup {[_id |-> k, title |-> QuotedTitle]}

ListingsOfLen(n) ==
    {l \in [1..n -> UNION {RemoteItems(k) : k \in 1..n}] : \A k \in 1..n : l[k]._id = k}

\* what GET /raindrops/{id} can answer with: the service caps a page at `perpage`
Listings(perpage) == UNION {ListingsOfLen(n) : n \in 0..Min(MaxItems, perpage)}

\* a variant of watchCheckSince that prefers the stored cursor to `since`
watchCheckSince_cursorFirst(args, now, timestamps) ==
    IF MapHas(timestamps, args.collectionId)
    THEN timestamps[args.collectionId]
    ELSE IF Has(args, "since") /\ Truthy(args.since) THEN args.since ELSE now

\* lines 1257-1275: the comparison floor of a call that is not a reset
watchCheckSince(args, now, timestamps) ==
    IF Has(args, "since") /\ Truthy(args.since)
    THEN args.since
    ELSE IF MapHas(timestamps, args.collectionId) /\ Truthy(timestamps[args.collectionId])
         THEN timestamps[args.collectionId]
         ELSE now

\* a variant of watchIsNew that compares with >= instead of >
watchIsNew_orEqual(item, sinceDate) ==
    /\ Has(item, "created")
    /\ Truthy(item.created)
    /\ DateOf(item.created) # NaN /\ sinceDate # NaN /\ DateOf(item.created) >= sinceDate

\* the callback of result.items.filter
watchIsNew(item, sinceDate) ==
    /\ Has(item, "created")
    /\ Truthy(item.created)
    /\ DateGreater(DateOf(item.created), sinceDate)

\* lines 1284-1288: result.items.filter(...), which keeps the order of the listing
watchNewItems(items, checkSince) ==
    LET sinceDate == DateOf(checkSince)
        F[k \in 0..Len(items)] ==
            IF k = 0 THEN <<>>
            ELSE IF watchIsNew(items[k], sinceDate)
                 THEN Append(F[k - 1], items[k])
                 ELSE F[k - 1]
    IN  F[Len(items)]

\* a variant of watchResetRequested that lets an explicit `since` win over the reset
watchResetRequested_unlessSince(args) ==
    Has(args, "resetWatch") /\ args.resetWatch /\ ~Has(args, "since")

\* `if (resetWatch)`
watchResetRequested(args) == Has(args, "resetWatch") /\ args.resetWatch

\* the request of getRaindrops(collectionId, {sort: "-created", perpage: 50})
watchListRequest(collectionId) ==
    Fetch(buildUrl(<<"/raindrops/", collectionId>>,
                   [sort |-> "-created", perpage |-> WATCH_PERPAGE]), "GET")

WatchResult(collectionId, since, until, newItems) ==
    [collectionId |-> collectionId, since |-> since, until |-> until,
     newItems |-> newItems, count |-> Len(newItems)]

\* the watch-collection tool is invoked with arguments of `argsSet`:
\* watchCollection runs to its first await, or to its end when resetWatch is set
WatchStartWith(i, argsSet) ==
    /\ calls[i].pc = "idle"
    /\ \E args \in argsSet :
        LET now == toISOString(clock)
            call == [tool |-> "watch-collection", pc |-> "await", args |-> args,
                     log |-> <<>>, loc |-> [now |-> now],
                     ghost |-> [at |-> clock, pre |-> watchTimestamps, answers |-> <<>>]]
        IN  IF watchResetRequested(args)
            THEN /\ watchTimestamps' = MapSet(watchTimestamps, args.collectionId, now)
                 /\ calls' = [calls EXCEPT ![i] =
                        Finish(call, Return(createJsonResponse(
                            WatchResult(args.collectionId, now, now, <<>>))))]
            ELSE /\ calls' = [calls EXCEPT ![i] =
                        [call EXCEPT
                            !.log = <<watchListRequest(args.collectionId)>>,
                            !.loc = [now |-> now,
                                     checkSince |-> watchCheckSince(args, now, watchTimestamps)]]]
                 /\ UNCHANGED watchTimestamps
    /\ UNCHANGED <<clock, raindrops, nextHighlightId>>

WatchStart(i) == WatchStartWith(i, WatchArgs)

\* the listing request of the invocation in slot i is answered with a failure
\* of `failures` or a listing of `listings`, and watchCollection runs from its
\* await to its end
WatchRespondWith(i, failures, listings) ==
    /\ calls[i].pc = "await"
    /\ calls[i].tool = "watch-collection"
    /\ \E response \in failures \cup
            {OkResponse([result |-> TRUE, items |-> l]) : l \in listings} :
        LET result == request(response)
            call == Answered(calls[i], result)
        IN  IF result.threw
            THEN /\ calls' = [calls EXCEPT ![i] = Finish(call, Throw(result.error))]
                 /\ UNCHANGED watchTimestamps
            ELSE LET newItems == watchNewItems(result.value.items, call.loc.checkSince)
                 IN  /\ watchTimestamps' =
                            MapSet(watchTimestamps, call.args.collectionId, call.loc.now)
                     /\ calls' = [calls EXCEPT ![i] =
                            Finish([call EXCEPT !.loc = [now |-> call.loc.now,
                                                         checkSince |-> call.loc.checkSince,
                                                         fetched |-> result.value.items]],
                                   Return(createJsonResponse(
                                       WatchResult(call.args.collectionId, call.loc.checkSince,
                                                   call.loc.now, newItems))))]
    /\ UNCHANGED <<clock, nextHighlightId>>

WatchRespond(i) ==
    /\ WatchRespondWith(i, FailureResponses, Listings(WATCH_PERPAGE))
    /\ UNCHANGED raindrops

-----------------------------------------------------------------------------
(* Highlights: read the bookmark, change its embedded array, write it back *)

RaindropIds == {1}

\* Highlight ids are strings chosen by the service; the n-th id it hands out is
\* named n here.  No id above MaxHighlights is ever handed out.
HighlightIdArgs == 1..(MaxHighlights + 1)

\* text is never empty (schema); color and note are optional
CreateHighlightArgs ==
    UNION {{[raindropId |-> b, text |-> "foo", minimal |-> FALSE],
            [raindropId |-> b, text |-> "foo", minimal |-> TRUE],
            [raindropId |-> b, text |-> "foo", minimal |-> FALSE, color |-> "red"],
            [raindropId |-> b, text |-> "foo", minimal |-> FALSE, color |-> "red",
             note |-> "n"]} : b \in RaindropIds}

\* the optional subfields of update-highlight, each supplied or not
HighlightUpdates ==
    {[x \in D |-> CASE x = "text" -> "bar" [] x = "color" -> "red" [] x = "note" -> ""] :
        D \in SUBSET {"text", "color", "note"}}

UpdateHighlightArgs ==
    {[raindropId |-> b, highlightId |-> h, minimal |-> FALSE, updates |-> u] :
        b \in RaindropIds, h \in HighlightIdArgs, u \in HighlightUpdates}
    \cup {[raindropId |-> b, highlightId |-> h, minimal |-> TRUE,
            updates |-> [text |-> "bar"]] : b \in RaindropIds, h \in HighlightIdArgs}

DeleteHighlightArgs ==
    {[raindropId |-> b, highlightId |-> h, minimal |-> m] :
        b \in RaindropIds, h \in HighlightIdArgs, m \in BOOLEAN}

getRaindropRequest(id) == Fetch(buildUrl(<<"/raindrop/", id>>, NoParams), "GET")

updateRaindropRequest(id, data) ==
    FetchBody(buildUrl(<<"/raindrop/", id>>, NoParams), "PUT", JSONstringify(data))

\* (raindrop.item.highlights as Highlight[]) || []
existingHighlights(item) == IF Has(item, "highlights") THEN item.highlights ELSE <<>>

\* existingHighlights.findIndex(h => h._id === highlightId), 0 standing for -1
findIndex(highlights, highlightId) ==
    LET hits == {k \in DOMAIN highlights :
                    Has(highlights[k], "_id") /\ highlights[k]._id = highlightId}
    IN  IF hits = {} THEN 0 ELSE CHOOSE k \in hits : \A j \in hits : k <= j

\* a variant of newHighlight without the defaults of color and note
newHighlight_noDefaults(args) ==
    [f \in {"text"} \cup (DOMAIN args \cap {"color", "note"}) |-> args[f]]

\* the record createHighlight appends: color || "yellow", note || ""
newHighlight(args) ==
    [text |-> args.text,
     color |-> FirstTruthy(args, "color", "yellow"),
     note |-> FirstTruthy(args, "note", "")]

\* a variant of createHighlightArray that writes the new record alone
createHighlightArray_onlyNew(existing, args) == <<newHighlight(args)>>

\* [...existingHighlights, newHighlight]
createHighlightArray(existing, args) == Append(existing, newHighlight(args))

\* a variant of updatedHighlight that assigns a subfield only when it is truthy
updatedHighlight_truthy(old, updates) ==
    [f \in DOMAIN old \cup {g \in DOMAIN updates : updates[g] # ""} |->
        IF Has(updates, f) /\ updates[f] # "" THEN updates[f] ELSE old[f]]

\* { ...existingHighlights[highlightIndex] } with the supplied subfields assigned
updatedHighlight(old, updates) ==
    [f \in DOMAIN old \cup DOMAIN updates |-> IF Has(updates, f) THEN updates[f] ELSE old[f]]

updateHighlightArray(existing, highlightIndex, updates) ==
    [existing EXCEPT ![highlightIndex] = updatedHighlight(existing[highlightIndex], updates)]

\* a variant of deleteHighlightArray that removes the element
deleteHighlightArray_remove(existing, highlightIndex) ==
    SubSeq(existing, 1, highlightIndex - 1) \o SubSeq(existing, highlightIndex + 1, Len(existing))

\* { ...updatedHighlights[highlightIndex], text: "" } at highlightIndex
deleteHighlightArray(existing, highlightIndex) ==
    [existing EXCEPT ![highlightIndex] =
        [f \in DOMAIN existing[highlightIndex] \cup {"text"} |->
            IF f = "text" THEN "" ELSE existing[highlightIndex][f]]]

highlightNotFound(highlightId, raindropId) ==
    Error(<<"Highlight with ID '", highlightId, "' not found in raindrop ", raindropId>>)

\* a variant of highlightMissing that never reports a missing highlight
highlightMissing_never(highlightIndex) == FALSE

\* `if (highlightIndex === -1)`
highlightMissing(highlightIndex) == highlightIndex = 0

\* The remote service stores the array of a PUT in place of the one it had: an
\* element without _id gets the next id, an element with empty text is dropped.
RECURSIVE ServiceStore(_, _, _)
ServiceStore(body, stored, nextId) ==
    IF body = <<>> THEN [highlights |-> stored, nextId |-> nextId]
    ELSE LET h == Head(body)
         IN  IF h.text = "" THEN ServiceStore(Tail(body), stored, nextId)
             ELSE IF Has(h, "_id") THEN ServiceStore(Tail(body), Append(stored, h), nextId)
             ELSE ServiceStore(Tail(body),
                     Append(stored, [f \in DOMAIN h \cup {"_id"} |->
                                        IF f = "_id" THEN nextId ELSE h[f]]),
                     nextId + 1)

ServicePut(item, data, nextId) ==
    LET st == ServiceStore(data.highlights, <<>>, nextId)
    IN  [item |-> [f \in DOMAIN item \cup {"highlights"} |->
                     IF f = "highlights" THEN st.highlights ELSE item[f]],
         nextId |-> st.nextId]

HighlightTools == {"create-highlight", "update-highlight", "delete-highlight"}

InFlightCreates ==
    Cardinality({i \in Slots : calls[i].tool = "create-highlight" /\ calls[i].pc # "done"})

\* a highlight tool is invoked: the derived operation runs to `await this.getRaindrop`
HighlightStart(i, tool, args) ==
    /\ calls[i].pc = "idle"
    /\ calls' = [calls EXCEPT ![i] =
            [tool |-> tool, pc |-> "await-get", args |-> args,
             log |-> <<getRaindropRequest(args.raindropId)>>,
             loc |-> [step |-> "getRaindrop"],
             ghost |-> [at |-> clock, pre |-> raindrops, answers |-> <<>>]]]
    /\ UNCHANGED <<clock, watchTimestamps, raindrops, nextHighlightId>>

CreateHighlightStart(i) ==
    /\ nextHighlightId + InFlightCreates <= MaxHighlights
    /\ \E args \in CreateHighlightArgs : HighlightStart(i, "create-highlight", args)

UpdateHighlightStart(i) ==
    \E args \in UpdateHighlightArgs : HighlightStart(i, "update-highlight", args)

DeleteHighlightStart(i) ==
    \E args \in DeleteHighlightArgs : HighlightStart(i, "delete-highlight", args)

\* the array the operation writes back, given what it fetched
highlightsToWrite(call, existing, highlightIndex) ==
    CASE call.tool = "create-highlight" -> createHighlightArray(existing, call.args)
      [] call.tool = "update-highlight" ->
            updateHighlightArray(existing, highlightIndex, call.args.updates)
      [] call.tool = "delete-highlight" -> deleteHighlightArray(existing, highlightIndex)

\* GET /raindrop/{id} of the invocation in slot i is answered: the operation
\* runs on to `this.updateRaindrop`, or throws
GetRaindropRespond(i) ==
    /\ calls[i].pc = "await-get"
    /\ \E response \in FailureResponses \cup
            {OkResponse([result |-> TRUE, item |-> raindrops[calls[i].args.raindropId]])} :
        LET raindrop == request(response)
            call == Answered(calls[i], raindrop)
        IN  IF raindrop.threw
            THEN calls' = [calls EXCEPT ![i] = Finish(call, Throw(raindrop.error))]
            ELSE LET existing == existingHighlights(raindrop.value.item)
                     highlightIndex ==
                        IF call.tool = "create-highlight" THEN 0
                        ELSE findIndex(existing, call.args.highlightId)
                     fetched == [step |-> "updateRaindrop", fetched |-> existing]
                 IN  IF call.tool # "create-highlight" /\ highlightMissing(highlightIndex)
                     THEN calls' = [calls EXCEPT ![i] =
                            Finish([call EXCEPT !.loc = fetched],
                                   Throw(highlightNotFound(call.args.highlightId,
                                                           call.args.raindropId)))]
                     ELSE calls' = [calls EXCEPT ![i] =
                            [call EXCEPT
                                !.pc = "await-put",
                                !.loc = fetched,
                                !.log = Append(@, updateRaindropRequest(call.args.raindropId,
                                    [highlights |->
                                        highlightsToWrite(call, existing, highlightIndex)]))]]
    /\ UNCHANGED <<clock, watchTimestamps, raindrops, nextHighlightId>>

\* PUT /raindrop/{id} of the invocation in slot i is answered: either the
\* service has stored the array, or it has refused and stored nothing
UpdateRaindropRespond(i) ==
    /\ calls[i].pc = "await-put"
    /\ LET id == calls[i].args.raindropId
           put == ServicePut(raindrops[id], calls[i].log[Len(calls[i].log)].body.json,
                             nextHighlightId)
       IN  \E response \in FailureResponses \cup
                {OkResponse([result |-> TRUE, item |-> put.item])} :
            LET result == request(response)
                call == Answered(calls[i], result)
            IN  IF result.threw
                THEN /\ calls' = [calls EXCEPT ![i] = Finish(call, Throw(result.error))]
                     /\ UNCHANGED <<raindrops, nextHighlightId>>
                ELSE /\ raindrops' = [raindrops EXCEPT ![id] = put.item]
                     /\ nextHighlightId' = put.nextId
                     /\ calls' = [calls EXCEPT ![i] =
                            Finish([call EXCEPT !.loc = [step |-> "done",
                                                         fetched |-> call.loc.fetched,
                                                         stored |-> put.item.highlights]],
                                   Return(handleMinimalResponse(result.value,
                                                                call.args.minimal)))]
    /\ UNCHANGED <<clock, watchTimestamps>>

-----------------------------------------------------------------------------
(* create-raindrops-bulk *)

\* the list of a bulk call: 1 to MaxBulk items (the schema allows 1 to 50), the
\* k-th with a link of its own
BulkRaindrops(n) == [k \in 1..n |-> [link |-> <<"https://", k>>, pleaseParse |-> TRUE]]

\* delayMs is between 100 and 5000 (schema)
DelayMsValues == {100, 500}

BulkArgs ==
    {[raindrops |-> BulkRaindrops(n), delayMs |-> d, continueOnError |-> c, minimal |-> m] :
        n \in 1..MaxBulk, d \in DelayMsValues, c \in BOOLEAN, m \in BOOLEAN}

\* the `data` built for one item of the list
bulkData(raindrop) ==
    IF Has(raindrop, "pleaseParse") /\ raindrop.pleaseParse
    THEN [link |-> raindrop.link, pleaseParse |-> "{}"]
    ELSE [link |-> raindrop.link]

createRaindropRequest(data) ==
    FetchBody(buildUrl("/raindrop", NoParams), "POST", JSONstringify(data))

\* the bookmark the service creates for a POST
ServiceCreate(data, id) == [_id |-> id, link |-> data.link, title |-> QuotedTitle]

NewResults(list) ==
    [total |-> Len(list), successful |-> 0, failed |-> 0, created |-> <<>>,
     errors |-> <<>>]

\* a variant of bulkRecordSuccess that counts the item without keeping it
bulkRecordSuccess_countOnly(results, item) ==
    [results EXCEPT !.successful = @ + 1]

\* the try block after `await client.createRaindrop(data)` returned
bulkRecordSuccess(results, item) ==
    [results EXCEPT !.successful = @ + 1, !.created = Append(@, item)]

\* a variant of bulkRecordFailure that counts the failure without an entry
bulkRecordFailure_countOnly(results, i, raindrop, error) ==
    [results EXCEPT !.failed = @ + 1]

\* the catch block
bulkRecordFailure(results, i, raindrop, error) ==
    [results EXCEPT
        !.failed = @ + 1,
        !.errors = Append(@, [index |-> i, link |-> raindrop.link,
                              error |-> IF error.instanceofError THEN error.message
                                        ELSE <<"String", error>>])]

\* a variant of bulkBreaks that never leaves the loop
bulkBreaks_never(continueOnError) == FALSE

\* `if (!continueOnError) break`
bulkBreaks(continueOnError) == ~continueOnError

\* a variant of bulkNextIndex that stays on the item that failed
bulkNextIndex_retry(i, failed) == IF failed THEN i ELSE i + 1

\* `i++` of the for loop
bulkNextIndex(i, failed) == i + 1

\* a variant of bulkDelays that also waits before the first item
bulkDelays_always(i, delayMs) == delayMs > 0

\* `if (i > 0 && delayMs > 0)`
bulkDelays(i, delayMs) == i > 0 /\ delayMs > 0

\* what the handler returns after the loop
bulkResponse(results, minimal) ==
    IF minimal
    THEN createJsonResponse([success |-> results.failed = 0, created |-> results.successful,
                             failed |-> results.failed, total |-> results.total])
    ELSE IF Len(results.errors) > 0
         THEN createJsonResponse(
                [success |-> results.failed = 0,
                 summary |-> [total |-> results.total, successful |-> results.successful,
                              failed |-> results.failed],
                 created |-> results.created, errors |-> results.errors])
         ELSE createJsonResponse(
                [success |-> results.failed = 0,
                 summary |-> [total |-> results.total, successful |-> results.successful,
                              failed |-> results.failed],
                 created |-> results.created])

\* the loop at the top of iteration i (0-based), with `results` so far: it
\* ends, waits for the delay, or issues the request of item i
bulkIterate(call, i, results) ==
    IF ~(i < Len(call.args.raindrops))
    THEN Finish([call EXCEPT !.loc = [i |-> i, results |-> results]],
                Return(bulkResponse(results, call.args.minimal)))
    ELSE IF bulkDelays(i, call.args.delayMs) /\ call.pc # "delay"
         THEN [call EXCEPT !.pc = "delay", !.loc = [i |-> i, results |-> results]]
         ELSE [call EXCEPT
                !.pc = "await-post",
                !.loc = [i |-> i, results |-> results],
                !.log = Append(@, createRaindropRequest(bulkData(call.args.raindrops[i + 1])))]

\* the bulk tool is invoked: the handler runs to the request of the first item
BulkStart(i) ==
    /\ calls[i].pc = "idle"
    /\ \E args \in BulkArgs :
        calls' = [calls EXCEPT ![i] =
            bulkIterate([tool |-> "create-raindrops-bulk", pc |-> "start", args |-> args,
                         log |-> <<>>, loc |-> [i |-> 0],
                         ghost |-> [at |-> clock, answers |-> <<>>]],
                        0, NewResults(args.raindrops))]
    /\ UNCHANGED <<clock, watchTimestamps, raindrops, nextHighlightId>>

\* the delay before the request of item i has elapsed
DelayElapsed(i) ==
    /\ calls[i].pc = "delay"
    /\ calls' = [calls EXCEPT ![i] = bulkIterate(calls[i], calls[i].loc.i, calls[i].loc.results)]
    /\ UNCHANGED <<clock, watchTimestamps, raindrops, nextHighlightId>>

\* POST /raindrop for item i is answered: the handler records the outcome and
\* runs on to its next await, or to its end
CreateRaindropRespond(i) ==
    /\ calls[i].pc = "await-post"
    /\ \E response \in FailureResponses \cup
            {OkResponse([result |-> TRUE,
                         item |-> ServiceCreate(calls[i].log[Len(calls[i].log)].body.json,
                                                Len(calls[i].log))])} :
        LET result == request(response)
            idx == calls[i].loc.i
            call == [Answered(calls[i], result) EXCEPT !.pc = "running"]
            results ==
                IF result.threw
                THEN bulkRecordFailure(call.loc.results, idx, call.args.raindrops[idx + 1],
                                       result.error)
                ELSE bulkRecordSuccess(call.loc.results, result.value.item)
        IN  calls' = [calls EXCEPT ![i] =
                IF result.threw /\ bulkBreaks(call.args.continueOnError)
                THEN Finish([call EXCEPT !.loc = [i |-> idx, results |-> results]],
                            Return(bulkResponse(results, call.args.minimal)))
                ELSE bulkIterate(call, bulkNextIndex(idx, result.threw), results)]
    /\ UNCHANGED <<clock, watchTimestamps, raindrops, nextHighlightId>>

-----------------------------------------------------------------------------
(* The environment *)

\* time passes
Tick ==
    /\ clock < MaxTime
    /\ clock' = clock + 1
    /\ UNCHANGED <<watchTimestamps, raindrops, nextHighlightId, calls>>

\* the transport has delivered the result of the invocation in slot i
Deliver(i) ==
    /\ calls[i].pc = "done"
    /\ calls' = [calls EXCEPT ![i] = Idle]
    /\ UNCHANGED <<clock, watchTimestamps, raindrops, nextHighlightId>>

-----------------------------------------------------------------------------
(* The watch-collection tool, one invocation at a time *)

InitWatch ==
    /\ clock = 0
    /\ watchTimestamps = EmptyMap
    /\ raindrops = <<>>
    /\ nextHighlightId = 1
    /\ calls = [i \in {1} |-> Idle]

NextWatch ==
    \/ Tick
    \/ \E i \in Slots : WatchStart(i)
    \/ \E i \in Slots : WatchRespond(i)
    \/ \E i \in Slots : Deliver(i)

SpecWatch == InitWatch /\ [][NextWatch]_vars

-----------------------------------------------------------------------------
(* The highlight tools on one bookmark, one invocation at a time *)

NewRaindrop(id) == [_id |-> id, title |-> QuotedTitle]

InitHighlights ==
    /\ clock = 0
    /\ watchTimestamps = EmptyMap
    /\ raindrops = [id \in RaindropIds |-> NewRaindrop(id)]
    /\ nextHighlightId = 1
    /\ calls = [i \in {1} |-> Idle]

NextHighlights ==
    \/ \E i \in Slots : CreateHighlightStart(i)
    \/ \E i \in Slots : UpdateHighlightStart(i)
    \/ \E i \in Slots : DeleteHighlightStart(i)
    \/ \E i \in Slots : GetRaindropRespond(i)
    \/ \E i \in Slots : UpdateRaindropRespond(i)
    \/ \E i \in Slots : Deliver(i)

SpecHighlights == InitHighlights /\ [][NextHighlights]_vars

(* Two create-highlight invocations that may overlap *)

InitCreateRace ==
    /\ clock = 0
    /\ watchTimestamps = EmptyMap
    /\ raindrops = [id \in RaindropIds |-> NewRaindrop(id)]
    /\ nextHighlightId = 1
    /\ calls = [i \in {1, 2} |-> Idle]

NextCreateRace ==
    \/ \E i \in Slots : CreateHighlightStart(i)
    \/ \E i \in Slots : GetRaindropRespond(i)
    \/ \E i \in Slots : UpdateRaindropRespond(i)
    \/ \E i \in Slots : Deliver(i)

SpecCreateRace == InitCreateRace /\ [][NextCreateRace]_vars

-----------------------------------------------------------------------------
(* The bulk-create tool, one invocation at a time *)

InitBulk ==
    /\ clock = 0
    /\ watchTimestamps = EmptyMap
    /\ raindrops = <<>>
    /\ nextHighlightId = 1
    /\ calls = [i \in {1} |-> Idle]

NextBulk ==
    \/ \E i \in Slots : BulkStart(i)
    \/ \E i \in Slots : DelayElapsed(i)
    \/ \E i \in Slots : CreateRaindropRespond(i)
    \/ \E i \in Slots : Deliver(i)

SpecBulk == InitBulk /\ [][NextBulk]_vars

-----------------------------------------------------------------------------
(* The tools together, one invocation at a time, on a bookmark that has one  *)
(* highlight.  Time stands still and no highlight is created, which keeps    *)
(* the remote state small; the invocations are those of the specifications   *)
(* above.                                                                    *)

RaindropWithHighlight(id) ==
    [_id |-> id, title |-> QuotedTitle,
     highlights |-> <<[_id |-> 1, text |-> "foo", color |-> "yellow", note |-> ""]>>]

InitTools ==
    /\ clock = 0
    /\ watchTimestamps = EmptyMap
    /\ raindrops = [id \in RaindropIds |-> RaindropWithHighlight(id)]
    /\ nextHighlightId = 2
    /\ calls = [i \in {1} |-> Idle]

NextTools ==
    \/ \E i \in Slots : WatchStart(i)
    \/ \E i \in Slots : WatchRespond(i)
    \/ \E i \in Slots : UpdateHighlightStart(i)
    \/ \E i \in Slots : DeleteHighlightStart(i)
    \/ \E i \in Slots : GetRaindropRespond(i)
    \/ \E i \in Slots : UpdateRaindropRespond(i)
    \/ \E i \in Slots : BulkStart(i)
    \/ \E i \in Slots : DelayElapsed(i)
    \/ \E i \in Slots : CreateRaindropRespond(i)
    \/ \E i \in Slots : Deliver(i)

SpecTools == InitTools /\ [][NextTools]_vars

-----------------------------------------------------------------------------
(* Properties of watchCollection *)

\* the data a finished invocation returned through createJsonResponse
Payload(call) == call.result.response.content[1].text.json

Returned(call) == call.pc = "done" /\ ~call.outcome.threw

WatchDone(i) == calls[i].pc = "done" /\ calls[i].tool = "watch-collection"

WatchReturned(i) == WatchDone(i) /\ Returned(calls[i])

IsoAfter(item, floor) ==
    /\ Has(item, "created")
    /\ item.created.kind = "iso"
    /\ floor.kind = "iso"
    /\ item.created.t > floor.t

\* C1: a call with no `since` and no `resetWatch` on a collection without a
\* stored cursor returns count = 0 and newItems = [] whatever the listing
\* returned, and a cursor is stored for the collection afterwards.
C1_BaselineReturnsNothing ==
    \A i \in Slots :
        (/\ WatchReturned(i)
         /\ ~Has(calls[i].args, "since")
         /\ ~watchResetRequested(calls[i].args)
         /\ ~MapHas(calls[i].ghost.pre, calls[i].args.collectionId))
        => /\ Payload(calls[i]).count = 0
           /\ Payload(calls[i]).newItems = <<>>
           /\ MapHas(watchTimestamps, calls[i].args.collectionId)

\* C2: a call with resetWatch = true returns count = 0, newItems = [] and
\* since = until = the call time, leaves the call time as the stored cursor of
\* the collection, and issues no request; whatever the cursor and `since` were.
C2_ResetReturnsEmpty ==
    \A i \in Slots :
        (WatchDone(i) /\ Has(calls[i].args, "resetWatch") /\ calls[i].args.resetWatch)
        => /\ Returned(calls[i])
           /\ Payload(calls[i]).count = 0
           /\ Payload(calls[i]).newItems = <<>>
           /\ Payload(calls[i]).since = toISOString(calls[i].ghost.at)
           /\ Payload(calls[i]).until = toISOString(calls[i].ghost.at)
           /\ MapHas(watchTimestamps, calls[i].args.collectionId)
           /\ watchTimestamps[calls[i].args.collectionId] = toISOString(calls[i].ghost.at)
           /\ calls[i].log = <<>>

\* a reset that found a cursor of an earlier instant and came with a `since`
C2_Witness ==
    \E i \in Slots :
        /\ WatchDone(i)
        /\ Has(calls[i].args, "resetWatch") /\ calls[i].args.resetWatch
        /\ Has(calls[i].args, "since")
        /\ MapHas(calls[i].ghost.pre, calls[i].args.collectionId)
        /\ calls[i].ghost.pre[calls[i].args.collectionId] # toISOString(calls[i].ghost.at)

\* the floor of the claim: `since` when supplied, else the stored cursor, else the call time
ClaimedFloor(call) ==
    IF Has(call.args, "since")
    THEN call.args.since
    ELSE IF MapHas(call.ghost.pre, call.args.collectionId)
         THEN call.ghost.pre[call.args.collectionId]
         ELSE toISOString(call.ghost.at)

\* the floor of the code: an empty `since` counts as not supplied
AmendedFloor(call) ==
    IF Has(call.args, "since") /\ call.args.since # EmptyString
    THEN call.args.since
    ELSE IF MapHas(call.ghost.pre, call.args.collectionId)
         THEN call.ghost.pre[call.args.collectionId]
         ELSE toISOString(call.ghost.at)

\* C3 (as stated): without resetWatch the returned `since` is the supplied
\* `since` whenever one is supplied, else the stored cursor, else the call time.
C3_FloorAsClaimed ==
    \A i \in Slots :
        (WatchReturned(i) /\ ~watchResetRequested(calls[i].args))
        => Payload(calls[i]).since = ClaimedFloor(calls[i])

\* C3 (amended): without resetWatch the returned `since`, which is the floor
\* the items were compared with, is the supplied `since` when it is not the
\* empty string, else the stored cursor if there is one, else the call time.
C3_FloorAmended ==
    \A i \in Slots :
        (WatchReturned(i) /\ ~watchResetRequested(calls[i].args))
        => /\ Payload(calls[i]).since = AmendedFloor(calls[i])
           /\ calls[i].loc.checkSince = AmendedFloor(calls[i])

\* a returned call that was given a `since` other than the cursor it found
C3_Witness ==
    \E i \in Slots :
        /\ WatchReturned(i)
        /\ ~watchResetRequested(calls[i].args)
        /\ Has(calls[i].args, "since")
        /\ calls[i].args.since.kind = "iso"
        /\ MapHas(calls[i].ghost.pre, calls[i].args.collectionId)
        /\ calls[i].ghost.pre[calls[i].args.collectionId] # calls[i].args.since
        /\ Payload(calls[i]).since = calls[i].args.since

\* C4: a call without resetWatch that returns has issued exactly one listing
\* request (sort = -created, perpage = 50); its newItems are the fetched items
\* created strictly after the floor, in the fetched order; count is their
\* number, until is the call time and the cursor is the call time afterwards.
C4_NewItemsAreThoseAfterFloor ==
    \A i \in Slots :
        (WatchReturned(i) /\ ~watchResetRequested(calls[i].args))
        => LET call == calls[i]
               after(item) == IsoAfter(item, call.loc.checkSince)
           IN  /\ Len(call.log) = 1
               /\ call.log[1].method = "GET"
               /\ call.log[1].url.path = <<"/raindrops/", call.args.collectionId>>
               /\ call.log[1].url.params = [sort |-> "-created", perpage |-> 50]
               /\ Payload(call).newItems = SelectSeq(call.loc.fetched, after)
               /\ Payload(call).count = Len(Payload(call).newItems)
               /\ Payload(call).until = toISOString(call.ghost.at)
               /\ watchTimestamps[call.args.collectionId] = toISOString(call.ghost.at)

\* a returned call that fetched an item created exactly at the floor and a newer one
C4_Witness ==
    \E i \in Slots :
        /\ WatchReturned(i)
        /\ ~watchResetRequested(calls[i].args)
        /\ \E k \in DOMAIN calls[i].loc.fetched :
                /\ Has(calls[i].loc.fetched[k], "created")
                /\ calls[i].loc.fetched[k].created = calls[i].loc.checkSince
        /\ Len(calls[i].loc.fetched) > Len(Payload(calls[i]).newItems)
        /\ Payload(calls[i]).count = 1

-----------------------------------------------------------------------------
(* Properties of the highlight operations *)

PutRequests(call) == {k \in DOMAIN call.log : call.log[k].method = "PUT"}

\* the highlight array of the k-th request of the invocation, a PUT
WrittenHighlights(call, k) == call.log[k].body.json.highlights

HasHighlight(highlights, id) ==
    \E k \in DOMAIN highlights : Has(highlights[k], "_id") /\ highlights[k]._id = id

\* the operation has fetched the bookmark and found (or not) the highlight it names
Fetched(call) == call.pc \in {"await-put", "done"} /\ Has(call.loc, "fetched")

\* b is a with its text replaced by the empty string
Tombstoned(a, b) ==
    /\ DOMAIN b = DOMAIN a \cup {"text"}
    /\ b.text = ""
    /\ \A f \in DOMAIN a \ {"text"} : b[f] = a[f]

\* C5: deleteHighlight on a bookmark whose fetched array holds the id issues
\* exactly one update; its array has the length and order of the fetched one,
\* the target with text = "" and its other fields kept, every other element
\* unchanged.
C5_DeleteWritesTombstone ==
    \A i \in Slots :
        (/\ calls[i].tool = "delete-highlight"
         /\ Fetched(calls[i])
         /\ HasHighlight(calls[i].loc.fetched, calls[i].args.highlightId))
        => LET call == calls[i]
               fetched == call.loc.fetched
           IN  /\ PutRequests(call) = {2}
               /\ call.log[2].url.path = <<"/raindrop/", call.args.raindropId>>
               /\ Len(WrittenHighlights(call, 2)) = Len(fetched)
               /\ \A k \in DOMAIN fetched :
                    IF fetched[k]._id = call.args.highlightId
                    THEN Tombstoned(fetched[k], WrittenHighlights(call, 2)[k])
                    ELSE WrittenHighlights(call, 2)[k] = fetched[k]

\* a delete that returned, of one highlight out of two
C5_Witness ==
    \E i \in Slots :
        /\ calls[i].tool = "delete-highlight"
        /\ Returned(calls[i])
        /\ Len(calls[i].loc.fetched) = 2
        /\ HasHighlight(calls[i].loc.fetched, calls[i].args.highlightId)
        /\ Len(WrittenHighlights(calls[i], 2)) = 2

\* C6: updateHighlight and deleteHighlight with an id that the fetched array
\* does not hold (the bookmark may have no array) fail with the not-found
\* error, as an error result, without any PUT, and the remote bookmark is as
\* it was when the tool was invoked.
C6_MissingHighlightFailsWithoutUpdate ==
    \A i \in Slots :
        (/\ calls[i].tool \in {"update-highlight", "delete-highlight"}
         /\ Fetched(calls[i])
         /\ ~HasHighlight(calls[i].loc.fetched, calls[i].args.highlightId))
        => /\ calls[i].pc = "done"
           /\ calls[i].outcome.threw
           /\ calls[i].outcome.error.message =
                <<"Highlight with ID '", calls[i].args.highlightId,
                  "' not found in raindrop ", calls[i].args.raindropId>>
           /\ Has(calls[i].result.response, "isError")
           /\ calls[i].result.response.isError
           /\ PutRequests(calls[i]) = {}
           /\ raindrops = calls[i].ghost.pre

\* an update that named an id missing from a bookmark that has highlights
C6_Witness ==
    \E i \in Slots :
        /\ calls[i].tool = "update-highlight"
        /\ calls[i].pc = "done"
        /\ Has(calls[i].loc, "fetched")
        /\ Len(calls[i].loc.fetched) > 0
        /\ ~HasHighlight(calls[i].loc.fetched, calls[i].args.highlightId)
        /\ calls[i].outcome.threw

CreateReturned(i) == calls[i].tool = "create-highlight" /\ Returned(calls[i])

RemoteHighlights(id) == existingHighlights(raindrops[id])

NewRecords(highlights) == {k \in DOMAIN highlights : ~Has(highlights[k], "_id")}

\* C7: of two create-highlight invocations on one bookmark that both returned,
\* each has written the array it fetched plus its own new record alone; when
\* both fetched before either wrote (they fetched the same array), the remote
\* array is the one the later of them wrote and holds one addition; when one
\* fetched what the other had stored, the remote array holds both additions.
C7_OverlappingCreatesLoseOne ==
    \A i, j \in Slots :
        (/\ i # j
         /\ CreateReturned(i)
         /\ CreateReturned(j)
         /\ calls[i].args.raindropId = calls[j].args.raindropId)
        => LET fi == calls[i].loc.fetched
               fj == calls[j].loc.fetched
               remote == RemoteHighlights(calls[i].args.raindropId)
           IN  /\ Len(WrittenHighlights(calls[i], 2)) = Len(fi) + 1
               /\ NewRecords(WrittenHighlights(calls[i], 2)) = {Len(fi) + 1}
               /\ fi = fj =>
                    /\ remote \in {calls[i].loc.stored, calls[j].loc.stored}
                    /\ Len(remote) = Len(fi) + 1
               /\ (fj = calls[i].loc.stored /\ remote = calls[j].loc.stored) =>
                    /\ Len(remote) = Len(fi) + 2
                    /\ \A k \in DOMAIN calls[i].loc.stored :
                            remote[k] = calls[i].loc.stored[k]

\* both invocations returned success, and the bookmark has one highlight more
\* than the array both had fetched
C7_Witness ==
    \E i, j \in Slots :
        /\ i # j
        /\ CreateReturned(i)
        /\ CreateReturned(j)
        /\ ~Has(calls[i].result.response, "isError")
        /\ ~Has(calls[j].result.response, "isError")
        /\ calls[i].loc.fetched = calls[j].loc.fetched
        /\ Len(RemoteHighlights(calls[i].args.raindropId)) = Len(calls[i].loc.fetched) + 1

-----------------------------------------------------------------------------
(* Properties of the bulk-create handler, of toolHandler and of request *)

BulkTool == "create-raindrops-bulk"

FailedAnswers(call) == {k \in DOMAIN call.ghost.answers : call.ghost.answers[k] = "failed"}

FirstFailed(call) == CHOOSE k \in FailedAnswers(call) : \A j \in FailedAnswers(call) : k <= j

\* the k-th request of a bulk invocation is the POST of the k-th item of its list
IsRequestOfItem(call, k) ==
    /\ call.log[k].method = "POST"
    /\ call.log[k].url.path = "/raindrop"
    /\ call.log[k].body.json.link = call.args.raindrops[k].link

\* the counts a bulk invocation reports, in either shape of its result
BulkSummary(call) ==
    IF call.args.minimal
    THEN [total |-> Payload(call).total, successful |-> Payload(call).created,
          failed |-> Payload(call).failed]
    ELSE Payload(call).summary

\* C8: with continueOnError = false, when item k is the first to fail the
\* invocation ends there: the requests issued are those of items 1..k, one
\* each and in order, and the summary is total = n, successful = k - 1,
\* failed = 1.
C8_BulkStopsAtFirstFailure ==
    \A i \in Slots :
        (/\ calls[i].tool = BulkTool
         /\ ~calls[i].args.continueOnError
         /\ FailedAnswers(calls[i]) # {})
        => LET call == calls[i]
               k == FirstFailed(call)
           IN  /\ call.pc = "done"
               /\ Len(call.log) = k
               /\ \A j \in 1..k : IsRequestOfItem(call, j)
               /\ BulkSummary(call) = [total |-> Len(call.args.raindrops),
                                       successful |-> k - 1, failed |-> 1]

\* three items, the second failed
C8_Witness ==
    \E i \in Slots :
        /\ calls[i].tool = BulkTool
        /\ calls[i].pc = "done"
        /\ ~calls[i].args.continueOnError
        /\ Len(calls[i].args.raindrops) = 3
        /\ calls[i].ghost.answers = <<"ok", "failed">>
        /\ Len(calls[i].log) = 2

Ended(call) == call.pc = "done"

ErrorText(call) == call.result.response.content[1].text

\* C9: an invocation ends only by returning a result.  When the handler
\* failed the result has isError = true and its text carries the message of
\* the failure; when it did not, the result is the handler's and has no
\* isError.  A failed request of a tool other than bulk create, and a highlight
\* id that is not found, make the handler fail.
C9_FailuresBecomeErrorResults ==
    \A i \in Slots :
        Ended(calls[i])
        => LET call == calls[i]
           IN  /\ call.result.settled = "fulfilled"
               /\ call.outcome.threw =>
                    /\ Has(call.result.response, "isError")
                    /\ call.result.response.isError
                    /\ ErrorText(call) = <<"Error: ", call.outcome.error.message>>
               /\ ~call.outcome.threw =>
                    /\ ~Has(call.result.response, "isError")
                    /\ call.result.response = call.outcome.value
               /\ (call.tool # BulkTool /\ FailedAnswers(call) # {}) => call.outcome.threw
               /\ (/\ call.tool \in {"update-highlight", "delete-highlight"}
                   /\ Has(call.loc, "fetched")
                   /\ ~HasHighlight(call.loc.fetched, call.args.highlightId))
                  => call.outcome.threw

\* an invocation whose request was rejected by the network has ended with an error result
C9_Witness ==
    \E i \in Slots :
        /\ Ended(calls[i])
        /\ calls[i].outcome.threw
        /\ calls[i].outcome.error.message = "fetch failed"
        /\ calls[i].result.settled = "fulfilled"
        /\ calls[i].result.response.isError

-----------------------------------------------------------------------------
(* JSON values, for the functions that walk a payload of any shape.  A value  *)
(* carries its JavaScript type; the fields of an object are a function on    *)
(* its own keys, the elements of an array a sequence.                        *)

MaxTitleLen == 5

Str(s) == [type |-> "string", v |-> s]

Num(n) == [type |-> "number", v |-> n]

Bool(b) == [type |-> "boolean", v |-> b]

Null == [type |-> "null"]

Arr(elems) == [type |-> "array", v |-> elems]

Obj(fields) == [type |-> "object", v |-> fields]

\* typeof value === "object" && value !== null
IsObjectValue(value) == value.type \in {"array", "object"}

\* a variant of cleanTitlesInValue that cleans the `title` of the value itself
\* and goes no deeper
cleanTitlesInValue_shallow(data) ==
    IF data.type # "object" THEN data
    ELSE Obj([key \in DOMAIN data.v |->
                IF key = "title" /\ data.v[key].type = "string"
                THEN Str(cleanTitle(data.v[key].v))
                ELSE data.v[key]])

\* cleanTitlesInData on a JSON value of any shape
RECURSIVE cleanTitlesInValue(_)
cleanTitlesInValue(data) ==
    IF ~IsObjectValue(data) THEN data
    ELSE IF data.type = "array"
         THEN Arr([k \in DOMAIN data.v |-> cleanTitlesInValue(data.v[k])])
         ELSE Obj([key \in DOMAIN data.v |->
                    LET value == data.v[key]
                    IN  IF key = "title" /\ value.type = "string"
                        THEN Str(cleanTitle(value.v))
                        ELSE IF IsObjectValue(value)
                             THEN cleanTitlesInValue(value)
                             ELSE value])

\* the characters of the titles of the model: a space, the two quote
\* characters and a letter
TitleChars == {" ", "\"", "'", "a"}

Titles == UNION {[1..n -> TitleChars] : n \in 0..MaxTitleLen}

\* the payloads a title can sit in: under a `title` key at the top, in an
\* object of an array, in an object under a `title` key; under another key;
\* as an element of an array; beside a `title` that is no string; alone
PayloadsWith(t) ==
    { Obj([title |-> Str(t)]),
      Obj([name |-> Str(t), count |-> Num(1)]),
      Obj([title |-> Num(1), note |-> Str(t)]),
      Arr(<<Obj([title |-> Str(t)]), Str(t)>>),
      Obj([result |-> Bool(TRUE),
           items |-> Arr(<<Obj([title |-> Str(t), tags |-> Arr(<<Str(t)>>)]), Null>>)]),
      Obj([title |-> Obj([title |-> Str(t), excerpt |-> Str(t)])]),
      Obj([title |-> Arr(<<Str(t)>>)]),
      Str(t) }

\* a function of the module is applied to an input: the slot keeps the input
\* and the value returned
Applied(fn, input, value) ==
    [tool |-> fn, pc |-> "returned", args |-> input, value |-> value]

\* handleResponse hands a parsed payload to cleanTitlesInData
Normalize(i) ==
    /\ calls[i].pc = "idle"
    /\ \E t \in Titles : \E data \in PayloadsWith(t) :
        calls' = [calls EXCEPT ![i] =
            Applied("cleanTitlesInData", data, cleanTitlesInValue(data))]
    /\ UNCHANGED <<clock, watchTimestamps, raindrops, nextHighlightId>>

\* a payload that was normalized goes through cleanTitlesInData once more
NormalizeAgain(i) ==
    /\ calls[i].pc = "returned"
    /\ calls[i].tool = "cleanTitlesInData"
    /\ ~Has(calls[i], "again")
    /\ calls' = [calls EXCEPT ![i] =
            [tool |-> "cleanTitlesInData", pc |-> "returned", args |-> calls[i].args,
             value |-> calls[i].value, again |-> cleanTitlesInValue(calls[i].value)]]
    /\ UNCHANGED <<clock, watchTimestamps, raindrops, nextHighlightId>>

\* the caller drops the value
Discard(i) ==
    /\ calls[i].pc = "returned"
    /\ calls' = [calls EXCEPT ![i] = Idle]
    /\ UNCHANGED <<clock, watchTimestamps, raindrops, nextHighlightId>>

-----------------------------------------------------------------------------
(* Field projection *)

MaxFields == 2

FIELD_PRESETS ==
    [minimal |-> <<"_id", "link", "title">>,
     basic |-> <<"_id", "link", "title", "excerpt", "tags", "created", "domain">>,
     standard |-> <<"_id", "link", "title", "excerpt", "note", "tags", "type", "cover",
                    "created", "lastUpdate", "domain", "important">>,
     media |-> <<"_id", "link", "title", "cover", "media", "type", "file">>,
     organization |-> <<"_id", "title", "tags", "collection", "collectionId", "sort",
                        "removed">>,
     metadata |-> <<"_id", "created", "lastUpdate", "creatorRef", "user", "broken",
                    "cache">>]

\* a FieldFilter: the name of a preset, or an array of field names; an absent
\* `fields` argument is NoFields
Preset(name) == [kind |-> "preset", name |-> name]

FieldArray(list) == [kind |-> "array", list |-> list]

NoFields == [kind |-> "undefined"]

\* `!fields`: an array is truthy even when empty, a preset name is not ""
FieldsGiven(fields) == fields.kind # "undefined"

resolveFieldList(fields) ==
    IF fields.kind = "preset" /\ fields.name \in DOMAIN FIELD_PRESETS
    THEN FIELD_PRESETS[fields.name]
    ELSE fields.list

\* the properties every object created by JSON.parse or by a literal inherits
\* from Object.prototype (two of them)
ObjectPrototypeKeys == {"constructor", "toString"}

\* `field in obj`: an own key, or a key found on the prototype chain
In(field, obj) == field \in DOMAIN obj.v \/ field \in ObjectPrototypeKeys

\* obj[field], for a field that is `in` obj
Get(obj, field) ==
    IF field \in DOMAIN obj.v THEN obj.v[field] ELSE [type |-> "function", v |-> field]

filterObjectFields(obj, fieldList) ==
    IF Len(fieldList) = 0 THEN Obj(<<>>)
    ELSE LET kept == {fieldList[k] : k \in {j \in DOMAIN fieldList : In(fieldList[j], obj)}}
         IN  Obj([field \in kept |-> Get(obj, field)])

filterFields(data, fields) ==
    IF ~FieldsGiven(fields) THEN data
    ELSE LET fieldList == resolveFieldList(fields)
         IN  IF data.type = "array"
             THEN Arr([k \in DOMAIN data.v |-> filterObjectFields(data.v[k], fieldList)])
             ELSE filterObjectFields(data, fieldList)

\* { ...data, [key]: value }
Spread(data, key, value) ==
    Obj([f \in DOMAIN data.v \cup {key} |-> IF f = key THEN value ELSE data.v[f]])

\* a variant of filterApiResponse that returns the projected payload alone
filterApiResponse_payloadOnly(data, fields) ==
    IF ~FieldsGiven(fields) THEN data
    ELSE LET fieldList == resolveFieldList(fields)
         IN  IF Len(fieldList) = 0
             THEN Obj([f \in DOMAIN data.v \ {"item", "items"} |-> data.v[f]])
             ELSE IF "items" \in DOMAIN data.v /\ data.v.items.type = "array"
                  THEN Obj([items |-> filterFields(data.v.items, fields)])
                  ELSE IF "item" \in DOMAIN data.v /\ IsObjectValue(data.v.item)
                       THEN Obj([item |-> filterFields(data.v.item, fields)])
                       ELSE data

\* a variant of filterApiResponse whose empty field list drops `items` alone
filterApiResponse_keepItem(data, fields) ==
    IF ~FieldsGiven(fields) THEN data
    ELSE IF Len(resolveFieldList(fields)) = 0
         THEN Obj([f \in DOMAIN data.v \ {"items"} |-> data.v[f]])
         ELSE data

filterApiResponse(data, fields) ==
    IF ~FieldsGiven(fields) THEN data
    ELSE LET fieldList == resolveFieldList(fields)
         IN  IF Len(fieldList) = 0
             THEN Obj([f \in DOMAIN data.v \ {"item", "items"} |-> data.v[f]])
             ELSE IF "items" \in DOMAIN data.v /\ data.v.items.type = "array"
                  THEN Spread(data, "items", filterFields(data.v.items, fields))
                  ELSE IF "item" \in DOMAIN data.v /\ IsObjectValue(data.v.item)
                       THEN Spread(data, "item", filterFields(data.v.item, fields))
                       ELSE data

\* the field names of the model: keys a record can have, a proper prefix of
\* one of them, and a name every object inherits
FieldNames == {"_id", "title", "extra", "titl", "toString"}

FieldLists == UNION {[1..n -> FieldNames] : n \in 0..MaxFields}

\* the records of the model: any subset of three keys
Records ==
    {Obj([f \in D |-> CASE f = "_id" -> Num(1)
                        [] f = "title" -> Str(<<"x">>)
                        [] f = "extra" -> Str(<<"y">>)]) :
        D \in SUBSET {"_id", "title", "extra"}}

FieldFilters ==
    {NoFields} \cup {Preset(name) : name \in DOMAIN FIELD_PRESETS}
        \cup {FieldArray(list) : list \in FieldLists}

\* the envelopes of the model: with `item`, with `items`, with both, with
\* neither, with an `items` that is no array and an `item` that is no object,
\* beside metadata keys
Envelopes ==
    LET meta == {Obj([result |-> Bool(TRUE)]),
                 Obj([result |-> Bool(TRUE), count |-> Num(3)])}
        withItem(e, r) == Spread(e, "item", r)
        withItems(e, r) == Spread(e, "items", Arr(<<r, Obj([_id |-> Num(2)])>>))
    IN  meta
        \cup {withItem(e, r) : e \in meta, r \in Records}
        \cup {withItems(e, r) : e \in meta, r \in Records}
        \cup {withItems(withItem(e, r), r) : e \in meta, r \in Records}
        \cup {Spread(e, "item", Null) : e \in meta}
        \cup {Spread(e, "items", Num(0)) : e \in meta}
        \cup {Spread(Spread(e, "items", Null), "item", Str(<<"x">>)) : e \in meta}
        \cup {Spread(Spread(e, "items", Num(0)), "item", Obj([_id |-> Num(1), extra |-> Num(2)])) :
                e \in meta}

\* filterObjectFields is applied to a record and a field list
FilterObject(i) ==
    /\ calls[i].pc = "idle"
    /\ \E obj \in Records : \E fieldList \in FieldLists :
        calls' = [calls EXCEPT ![i] =
            Applied("filterObjectFields", [obj |-> obj, fieldList |-> fieldList],
                    filterObjectFields(obj, fieldList))]
    /\ UNCHANGED <<clock, watchTimestamps, raindrops, nextHighlightId>>

\* a handler hands a response and its `fields` argument to filterApiResponse
FilterResponse(i) ==
    /\ calls[i].pc = "idle"
    /\ \E data \in Envelopes : \E fields \in FieldFilters :
        calls' = [calls EXCEPT ![i] =
            Applied("filterApiResponse", [data |-> data, fields |-> fields],
                    filterApiResponse(data, fields))]
    /\ UNCHANGED <<clock, watchTimestamps, raindrops, nextHighlightId>>

-----------------------------------------------------------------------------
(* handleResponse on the responses a service can send *)

\* HTTP statuses of the model; Response.ok is true for 200..299
Statuses == {200, 201, 307, 400, 404, 500}

ResponseOk(status) == status >= 200 /\ status <= 299

\* parsed bodies: with and without `result`, `errorMessage` and `error`
ParsedBodies ==
    { [result |-> TRUE],
      [result |-> TRUE, errorMessage |-> "m"],
      [result |-> FALSE],
      [result |-> FALSE, errorMessage |-> "m"],
      [result |-> FALSE, error |-> "e"],
      [result |-> FALSE, errorMessage |-> "m", error |-> "e"],
      [result |-> FALSE, errorMessage |-> "", error |-> "e"],
      [error |-> "e"],
      [statusCode |-> 500] }

\* every status with every body, parseable or not
Responses ==
    {[rejected |-> FALSE, ok |-> ResponseOk(st), status |-> st, statusText |-> "text",
      json |-> FALSE] : st \in Statuses}
    \cup {[rejected |-> FALSE, ok |-> ResponseOk(st), status |-> st, statusText |-> "text",
           json |-> TRUE, data |-> d] : st \in Statuses, d \in ParsedBodies}

\* a response arrives and the client hands it to handleResponse
HandleResponse(i) ==
    /\ calls[i].pc = "idle"
    /\ \E response \in Responses :
        calls' = [calls EXCEPT ![i] =
            Applied("handleResponse", response, handleResponse(response))]
    /\ UNCHANGED <<clock, watchTimestamps, raindrops, nextHighlightId>>

-----------------------------------------------------------------------------
(* The functions of the module that keep no state, each applied to the      *)
(* inputs of the model                                                       *)

InitPure ==
    /\ clock = 0
    /\ watchTimestamps = EmptyMap
    /\ raindrops = <<>>
    /\ nextHighlightId = 1
    /\ calls = [i \in {1} |-> Idle]

NextPure ==
    \/ \E i \in Slots : Normalize(i)
    \/ \E i \in Slots : NormalizeAgain(i)
    \/ \E i \in Slots : FilterObject(i)
    \/ \E i \in Slots : FilterResponse(i)
    \/ \E i \in Slots : HandleResponse(i)
    \/ \E i \in Slots : Discard(i)

SpecPure == InitPure /\ [][NextPure]_vars

-----------------------------------------------------------------------------
(* Properties of the normalizer *)

Quotes == {"\"", "'"}

NormalizedOnce(i) == calls[i].tool = "cleanTitlesInData" /\ calls[i].pc = "returned"

NormalizedTwice(i) == NormalizedOnce(i) /\ Has(calls[i], "again")

\* s without its leading and trailing spaces
Trimmed(s) ==
    LET solid == {k \in DOMAIN s : s[k] # " "}
    IN  IF solid = {} THEN <<>>
        ELSE SubSeq(s, CHOOSE k \in solid : \A j \in solid : k <= j,
                       CHOOSE k \in solid : \A j \in solid : k >= j)

\* the first and the last character of s are one and the same quote character
Enclosed(s) == Len(s) >= 1 /\ s[1] \in Quotes /\ s[Len(s)] = s[1]

\* a title that another normalization leaves alone: no space at either end,
\* not enclosed in quotes
Settled(s) == Trimmed(s) = s /\ ~Enclosed(s)

\* the strings of a payload that sit under a `title` key
RECURSIVE TitleStringsOf(_)
TitleStringsOf(data) ==
    IF data.type = "array"
    THEN UNION {TitleStringsOf(data.v[k]) : k \in DOMAIN data.v}
    ELSE IF data.type = "object"
         THEN UNION {IF key = "title" /\ data.v[key].type = "string"
                     THEN {data.v[key].v}
                     ELSE TitleStringsOf(data.v[key]) : key \in DOMAIN data.v}
         ELSE {}

TitleAsStated(t, out) ==
    IF Enclosed(Trimmed(t))
    THEN /\ Len(out) = Len(Trimmed(t)) - 2
         /\ out = SubSeq(Trimmed(t), 2, Len(Trimmed(t)) - 1)
    ELSE out = Trimmed(t)

TitleAsAmended(t, out) ==
    IF Enclosed(Trimmed(t))
    THEN out = SubSeq(Trimmed(t), 2, Len(Trimmed(t)) - 1)
    ELSE out = Trimmed(t)

\* y is x with nothing changed but the strings under a `title` key
RECURSIVE SameButTitles(_, _, _)
SameButTitles(x, y, amended) ==
    /\ y.type = x.type
    /\ IF x.type = "array"
       THEN /\ Len(y.v) = Len(x.v)
            /\ \A k \in DOMAIN x.v : SameButTitles(x.v[k], y.v[k], amended)
       ELSE IF x.type = "object"
            THEN /\ DOMAIN y.v = DOMAIN x.v
                 /\ \A key \in DOMAIN x.v :
                        IF key = "title" /\ x.v[key].type = "string"
                        THEN /\ y.v[key].type = "string"
                             /\ IF amended
                                THEN TitleAsAmended(x.v[key].v, y.v[key].v)
                                ELSE TitleAsStated(x.v[key].v, y.v[key].v)
                        ELSE SameButTitles(x.v[key], y.v[key], amended)
            ELSE y = x

\* C14 (as stated): the normalizer changes only the strings under a `title`
\* key, at any depth; such a string is trimmed and then loses exactly one pair
\* of enclosing quotes when its first and last characters are the same quote
\* character, and is only trimmed otherwise.
C14_NormalizerAsStated ==
    \A i \in Slots :
        NormalizedOnce(i) => SameButTitles(calls[i].args, calls[i].value, FALSE)

\* C14 (amended): the normalizer changes only the strings under a `title` key,
\* at any depth; such a string is trimmed and then loses its first and its last
\* character when these are the same quote character - a pair of quotes, or
\* the whole of a title that is one quote character - and is only trimmed
\* otherwise; everything else, and the shape of arrays and objects, is kept.
C14_NormalizerAmended ==
    \A i \in Slots :
        NormalizedOnce(i) => SameButTitles(calls[i].args, calls[i].value, TRUE)

\* a payload whose nested title lost its spaces and its quotes, while the same
\* string under other keys was kept
C14_Witness ==
    \E i \in Slots :
        /\ NormalizedOnce(i)
        /\ calls[i].args = Obj([title |-> Obj([title |-> Str(<<" ", "'", "a", "'", " ">>),
                                               excerpt |-> Str(<<" ", "'", "a", "'", " ">>)])])
        /\ calls[i].value = Obj([title |-> Obj([title |-> Str(<<"a">>),
                                                excerpt |-> Str(<<" ", "'", "a", "'", " ">>)])])

-----------------------------------------------------------------------------
(* Properties of field projection *)

Range(seq) == {seq[k] : k \in DOMAIN seq}

\* C15: filterApiResponse with a selector that resolves to the empty field list
\* returns the envelope without its `item` and `items` keys: every other key
\* with its value, no payload key, for every shape of envelope.
C15_EmptyFieldListKeepsMetadata ==
    \A i \in Slots :
        (/\ calls[i].tool = "filterApiResponse"
         /\ calls[i].pc = "returned"
         /\ calls[i].args.fields = FieldArray(<<>>))
        => LET data == calls[i].args.data
               out == calls[i].value
           IN  /\ out.type = "object"
               /\ DOMAIN out.v = DOMAIN data.v \ {"item", "items"}
               /\ \A f \in DOMAIN out.v : out.v[f] = data.v[f]

\* an envelope with `item`, `items` and two metadata keys, projected over []
C15_Witness ==
    \E i \in Slots :
        /\ calls[i].tool = "filterApiResponse"
        /\ calls[i].pc = "returned"
        /\ calls[i].args.fields = FieldArray(<<>>)
        /\ {"item", "items"} \subseteq DOMAIN calls[i].args.data.v
        /\ calls[i].value = Obj([result |-> Bool(TRUE), count |-> Num(3)])

\* C16: filterObjectFields returns a record whose keys are exactly the keys of
\* the record that are in the field list, each with the record's value.
C16_ProjectionIsIntersection ==
    \A i \in Slots :
        (calls[i].tool = "filterObjectFields" /\ calls[i].pc = "returned")
        => LET obj == calls[i].args.obj
               out == calls[i].value
           IN  /\ DOMAIN out.v = DOMAIN obj.v \cap Range(calls[i].args.fieldList)
               /\ \A f \in DOMAIN out.v \cap DOMAIN obj.v : out.v[f] = obj.v[f]

\* `out` has, of the keys of `record` itself, those the list names, each with
\* the record's value
ProjectedOwnKeys(record, out, list) ==
    /\ out.type = "object"
    /\ DOMAIN out.v \cap DOMAIN record.v = DOMAIN record.v \cap Range(list)
    /\ \A f \in DOMAIN out.v \cap DOMAIN record.v : out.v[f] = record.v[f]

\* C25: filterApiResponse with a selector that resolves to a non-empty field
\* list returns an envelope with the keys of the one it was given, every key
\* but `item` and `items` with its value unchanged; an array `items` comes back
\* as an array of the same length whose k-th element is the projection of the
\* k-th; an envelope with neither an array `items` nor an object `item` comes
\* back as it was.  Without a selector every envelope comes back as it was.
C25_EnvelopeFrame ==
    \A i \in Slots :
        (calls[i].tool = "filterApiResponse" /\ calls[i].pc = "returned")
        => LET data == calls[i].args.data
               fields == calls[i].args.fields
               out == calls[i].value
               list == IF fields.kind = "preset" THEN FIELD_PRESETS[fields.name]
                       ELSE fields.list
               arrayItems == "items" \in DOMAIN data.v /\ data.v.items.type = "array"
               objectItem == "item" \in DOMAIN data.v /\ data.v.item.type = "object"
           IN  IF fields.kind = "undefined" THEN out = data
               ELSE Len(list) > 0
                    => /\ out.type = "object"
                       /\ DOMAIN out.v = DOMAIN data.v
                       /\ \A f \in DOMAIN data.v \ {"item", "items"} : out.v[f] = data.v[f]
                       /\ arrayItems
                            => /\ out.v.items.type = "array"
                               /\ Len(out.v.items.v) = Len(data.v.items.v)
                               /\ \A k \in DOMAIN data.v.items.v :
                                    ProjectedOwnKeys(data.v.items.v[k], out.v.items.v[k], list)
                       /\ (~arrayItems /\ ~objectItem) => out = data

\* an envelope with two metadata keys and a list of two records, projected
\* over ["_id"]
C25_Witness ==
    \E i \in Slots :
        /\ calls[i].tool = "filterApiResponse"
        /\ calls[i].pc = "returned"
        /\ calls[i].args.fields = FieldArray(<<"_id">>)
        /\ DOMAIN calls[i].args.data.v = {"result", "count", "items"}
        /\ calls[i].args.data.v.items.type = "array"
        /\ DOMAIN calls[i].args.data.v.items.v[1].v = {"_id", "title", "extra"}
        /\ calls[i].value =
            Obj([result |-> Bool(TRUE), count |-> Num(3),
                 items |-> Arr(<<Obj([_id |-> Num(1)]), Obj([_id |-> Num(2)])>>)])

-----------------------------------------------------------------------------
(* Properties of handleResponse *)

Handled(i) == calls[i].tool = "handleResponse" /\ calls[i].pc = "returned"

\* the response is one the claim calls a failure
Unsuccessful(response) ==
    \/ ~response.ok
    \/ response.json /\ Has(response.data, "result") /\ response.data.result = FALSE

Supplied(response, f) ==
    response.json /\ Has(response.data, f) /\ response.data[f] # ""

\* the message the claim gives the failure
ApiErrorMessage(response) ==
    IF Supplied(response, "errorMessage") THEN response.data.errorMessage
    ELSE IF Supplied(response, "error") THEN response.data.error
    ELSE <<"API request failed: ", response.status>>

\* C17 (as stated): every response with a non-success status or with
\* result = false fails with the service's errorMessage, else its error, else
\* the generic text, whatever its body.
C17_FailureMessageAsStated ==
    \A i \in Slots :
        (Handled(i) /\ Unsuccessful(calls[i].args))
        => /\ calls[i].value.threw
           /\ calls[i].value.error.message = ApiErrorMessage(calls[i].args)

\* C17 (amended): a response whose body parses, and that has a non-success
\* status or result = false, fails with the service's errorMessage when that is
\* present and not empty, else its error when present and not empty, else the
\* generic text with the status; a response whose body does not parse fails
\* with the parse failure text carrying status and reason, whatever its status;
\* every other response does not fail.
C17_FailureMessageAmended ==
    \A i \in Slots :
        Handled(i)
        => LET response == calls[i].args
               out == calls[i].value
           IN  IF ~response.json
               THEN /\ out.threw
                    /\ out.error.message = <<"Failed to parse JSON response: ",
                                             response.status, response.statusText>>
               ELSE IF Unsuccessful(response)
                    THEN /\ out.threw
                         /\ out.error.message = ApiErrorMessage(response)
                    ELSE ~out.threw

\* a 404 whose body carries both an errorMessage and an error
C17_Witness ==
    \E i \in Slots :
        /\ Handled(i)
        /\ calls[i].args.status = 404
        /\ calls[i].args.json
        /\ Has(calls[i].args.data, "errorMessage")
        /\ Has(calls[i].args.data, "error")
        /\ calls[i].value.threw
        /\ calls[i].value.error.message = "m"

-----------------------------------------------------------------------------
(* The cursor map after a watch invocation *)

\* C20 (as stated): after every watch-collection invocation on collection c,
\* however it ends, the cursor map holds for c the entry that invocation wrote:
\* its call time.
C20_CursorWrittenByEveryInvocation ==
    \A i \in Slots :
        WatchDone(i)
        => /\ MapHas(watchTimestamps, calls[i].args.collectionId)
           /\ watchTimestamps[calls[i].args.collectionId] = toISOString(calls[i].ghost.at)

\* C20 (amended): after a watch-collection invocation on collection c that
\* returns - a reset, or a listing that was answered, with or without `since` -
\* the cursor map holds the call time of that invocation for c and is
\* otherwise as the invocation found it; an invocation whose listing request
\* fails leaves the whole map as it found it.
C20_CursorWrittenWhenReturned ==
    \A i \in Slots :
        WatchDone(i)
        => LET call == calls[i]
               c == call.args.collectionId
           IN  IF Returned(call)
               THEN /\ DOMAIN watchTimestamps = DOMAIN call.ghost.pre \cup {c}
                    /\ watchTimestamps[c] = toISOString(call.ghost.at)
                    /\ \A d \in DOMAIN call.ghost.pre \ {c} :
                            watchTimestamps[d] = call.ghost.pre[d]
               ELSE watchTimestamps = call.ghost.pre

\* a listing with an explicit `since` that returned and overwrote an older
\* cursor, while the other collection kept its own
C20_Witness ==
    \E i \in Slots :
        /\ WatchReturned(i)
        /\ ~watchResetRequested(calls[i].args)
        /\ Has(calls[i].args, "since")
        /\ Len(calls[i].log) = 1
        /\ DOMAIN calls[i].ghost.pre = Collections
        /\ calls[i].ghost.pre[calls[i].args.collectionId] # toISOString(calls[i].ghost.at)
        /\ watchTimestamps[calls[i].args.collectionId] = toISOString(calls[i].ghost.at)

-----------------------------------------------------------------------------
(* The write tools that issue one request: collections, bookmarks, tags,     *)
(* reminders and trash moves                                                  *)

TRASH_COLLECTION_ID == -99

UNSORTED_COLLECTION_ID == -1

\* { $id: id }
Ref(id) == "$id" :> id

\* r with the key f set to v
With(r, f, v) == [x \in DOMAIN r \cup {f} |-> IF x = f THEN v ELSE r[x]]

\* the keys of r other than those of `keys`
Without(r, keys) == [x \in DOMAIN r \ keys |-> r[x]]

MessageTools == {"delete-collection", "delete-raindrop", "delete-tags"}

WriteTools ==
    {"create-collection", "update-collection", "create-raindrop", "update-raindrop",
     "merge-tags", "set-reminder", "remove-reminder", "move-to-trash",
     "restore-from-trash"} \cup MessageTools

\* the arguments of the model for each tool, without `minimal`
WriteParams(tool) ==
    CASE tool = "create-collection" ->
            {[title |-> "c", view |-> "list", public |-> FALSE],
             [title |-> "c", view |-> "grid", public |-> TRUE, description |-> "d",
              parentId |-> 5],
             [title |-> "c", view |-> "list", public |-> FALSE, description |-> "",
              parentId |-> 0]}
      [] tool = "update-collection" ->
            {[id |-> 1], [id |-> 1, title |-> "c", parentId |-> 0],
             [id |-> 1, expanded |-> FALSE]}
      [] tool = "delete-collection" -> {[id |-> 1], [id |-> TRASH_COLLECTION_ID]}
      [] tool = "create-raindrop" ->
            {[link |-> "l", pleaseParse |-> TRUE],
             [link |-> "l", pleaseParse |-> FALSE, title |-> "t", collectionId |-> 0,
              important |-> FALSE],
             [link |-> "l", pleaseParse |-> TRUE, title |-> "", note |-> "n"]}
      [] tool = "update-raindrop" ->
            {[id |-> 1, updates |-> [title |-> "t"]],
             [id |-> 1, updates |-> [note |-> "", important |-> TRUE], collectionId |-> 0],
             [id |-> 1, updates |-> <<>>, collectionId |-> 2]}
      [] tool = "delete-raindrop" -> {[id |-> 1]}
      [] tool = "merge-tags" ->
            {[tags |-> tags, newTag |-> newTag] :
                tags \in {<<>>, <<"a">>, <<"a", "b">>},
                newTag \in {<<>>, <<" ">>, <<"n">>}}
            \cup {[tags |-> <<"a">>, newTag |-> <<"n">>, collectionId |-> 0]}
      [] tool = "delete-tags" ->
            {[tags |-> <<"a">>], [tags |-> <<>>], [tags |-> <<"a">>, collectionId |-> 0]}
      [] tool = "set-reminder" ->
            {[raindropId |-> 1, reminderDate |-> d] :
                d \in {toISOString(1), InvalidDateString, EmptyString}}
      [] tool = "remove-reminder" -> {[raindropId |-> 1]}
      [] tool = "move-to-trash" -> {[raindropId |-> 1]}
      [] tool = "restore-from-trash" ->
            {[raindropId |-> 1], [raindropId |-> 1, targetCollectionId |-> 0]}

\* `minimal` is a boolean with default false: the handler always receives it
WriteArgs(tool) == {With(params, "minimal", m) : params \in WriteParams(tool), m \in BOOLEAN}

\* `if (params.x)` on an optional string: present and not ""
TruthyString(params, f) == Has(params, f) /\ params[f] # ""

\* `if (params.x)` on an optional number: present and not 0
TruthyNumber(params, f) == Has(params, f) /\ params[f] # 0

\* r with the key f set to v when `cond`
WithIf(cond, r, f, v) == IF cond THEN With(r, f, v) ELSE r

\* the `data` of the create-collection handler
createCollectionData(params) ==
    LET data == [title |-> params.title, view |-> params.view, public |-> params.public]
        d1 == WithIf(TruthyString(params, "description"), data, "description",
                     IF Has(params, "description") THEN params.description ELSE "")
        d2 == WithIf(TruthyNumber(params, "parentId"), d1, "parent",
                     Ref(IF Has(params, "parentId") THEN params.parentId ELSE 0))
    IN  d2

\* the `data` of the update-collection handler: every field that is not undefined
updateCollectionData(fields) ==
    LET d1 == Without(fields, {"id", "minimal", "parentId"})
    IN  WithIf(Has(fields, "parentId"), d1, "parent",
               Ref(IF Has(fields, "parentId") THEN fields.parentId ELSE 0))

\* the `data` of the create-raindrop handler
createRaindropData(params) ==
    LET data == [link |-> params.link]
        d1 == WithIf(TruthyString(params, "title"), data, "title",
                     IF Has(params, "title") THEN params.title ELSE "")
        d2 == WithIf(TruthyString(params, "note"), d1, "note",
                     IF Has(params, "note") THEN params.note ELSE "")
        d3 == WithIf(Has(params, "collectionId"), d2, "collection",
                     Ref(IF Has(params, "collectionId") THEN params.collectionId ELSE 0))
        d4 == WithIf(Has(params, "important"), d3, "important",
                     IF Has(params, "important") THEN params.important ELSE FALSE)
        d5 == WithIf(params.pleaseParse, d4, "pleaseParse", "{}")
    IN  d5

\* the `data` of the update-raindrop handler: { ...updates } and the collection
updateRaindropData(args) ==
    WithIf(Has(args, "collectionId"), args.updates, "collection",
           Ref(IF Has(args, "collectionId") THEN args.collectionId ELSE 0))

createCollectionRequest(data) ==
    FetchBody(buildUrl("/collection", NoParams), "POST", JSONstringify(data))

updateCollectionRequest(id, data) ==
    FetchBody(buildUrl(<<"/collection/", id>>, NoParams), "PUT", JSONstringify(data))

deleteCollectionRequest(id) == Fetch(buildUrl(<<"/collection/", id>>, NoParams), "DELETE")

deleteRaindropRequest(id) == Fetch(buildUrl(<<"/raindrop/", id>>, NoParams), "DELETE")

\* collectionId !== undefined ? `/tags/${collectionId}` : "/tags"
tagsPath(args) ==
    IF Has(args, "collectionId") THEN <<"/tags/", args.collectionId>> ELSE "/tags"

mergeTagsRequest(args) ==
    FetchBody(buildUrl(tagsPath(args), NoParams), "PUT",
              JSONstringify([tags |-> args.tags, replace |-> args.newTag]))

deleteTagsRequest(args) ==
    FetchBody(buildUrl(tagsPath(args), NoParams), "DELETE",
              JSONstringify([tags |-> args.tags]))

\* what the handler checks before it calls the client: an error to throw, or nothing
writeValidation(tool, args) ==
    CASE tool = "merge-tags" /\ Len(args.tags) = 0 ->
            Throw(Error("Parameter 'tags' is required and must be a non-empty array of tag names"))
      [] tool = "merge-tags" /\ Len(args.tags) > 0 /\ trim(args.newTag) = <<>> ->
            Throw(Error("Parameter 'newTag' is required and cannot be empty"))
      [] tool = "set-reminder" /\ DateOf(args.reminderDate) = NaN ->
            Throw(Error(<<"Invalid date format: ", args.reminderDate,
                          ". Use ISO-8601 format (e.g., '2024-12-31T09:00:00Z')">>))
      [] OTHER -> Return("valid")

\* the one request of the tool
writeRequest(tool, args) ==
    CASE tool = "create-collection" -> createCollectionRequest(createCollectionData(args))
      [] tool = "update-collection" ->
            updateCollectionRequest(args.id, updateCollectionData(args))
      [] tool = "delete-collection" -> deleteCollectionRequest(args.id)
      [] tool = "create-raindrop" -> createRaindropRequest(createRaindropData(args))
      [] tool = "update-raindrop" -> updateRaindropRequest(args.id, updateRaindropData(args))
      [] tool = "delete-raindrop" -> deleteRaindropRequest(args.id)
      [] tool = "merge-tags" -> mergeTagsRequest(args)
      [] tool = "delete-tags" -> deleteTagsRequest(args)
      [] tool = "set-reminder" ->
            updateRaindropRequest(args.raindropId,
                [reminder |-> [date |-> toISOString(DateOf(args.reminderDate))]])
      [] tool = "remove-reminder" ->
            updateRaindropRequest(args.raindropId, [reminder |-> "null"])
      [] tool = "move-to-trash" ->
            updateRaindropRequest(args.raindropId, [collection |-> Ref(TRASH_COLLECTION_ID)])
      [] tool = "restore-from-trash" ->
            updateRaindropRequest(args.raindropId,
                [collection |-> Ref(IF Has(args, "targetCollectionId")
                                    THEN args.targetCollectionId
                                    ELSE UNSORTED_COLLECTION_ID)])

\* the text of the tools that answer with a message
writeMessage(tool, args) ==
    CASE tool = "delete-collection" -> "Collection deleted successfully"
      [] tool = "delete-raindrop" -> "Raindrop deleted successfully"
      [] tool = "delete-tags" -> "Tags deleted successfully"
      [] tool = "merge-tags" ->
            IF Len(args.tags) = 1 THEN "Tag renamed successfully"
            ELSE <<Len(args.tags), " tags merged into '", args.newTag, "' successfully">>

\* what the handler returns once the client has returned `result`; the model
\* invokes update-raindrop without `fields`, which filterApiResponse passes through
writeResponse(tool, args, result) ==
    CASE tool \in MessageTools -> handleMessageResponse(writeMessage(tool, args), args.minimal)
      [] tool = "merge-tags" ->
            IF args.minimal THEN createSuccessResponse("ok")
            ELSE createSuccessResponse(writeMessage(tool, args))
      [] tool = "update-raindrop" ->
            IF args.minimal THEN createSuccessResponse("ok")
            ELSE createJsonResponse(filterApiResponse(result, NoFields))
      [] OTHER -> handleMinimalResponse(result, args.minimal)

\* the body of the service's answer to a request it accepts
WriteOkBody(tool) ==
    IF tool \in MessageTools \cup {"merge-tags"}
    THEN [result |-> TRUE]
    ELSE [result |-> TRUE, item |-> [_id |-> 1, title |-> QuotedTitle]]

\* a write tool is invoked: the handler runs to the await of its request, or
\* throws before it
WriteStart(i) ==
    /\ calls[i].pc = "idle"
    /\ \E tool \in WriteTools : \E args \in WriteArgs(tool) :
        LET call == [tool |-> tool, pc |-> "await-write", args |-> args, log |-> <<>>,
                     loc |-> <<>>, ghost |-> [at |-> clock, answers |-> <<>>]]
            valid == writeValidation(tool, args)
        IN  calls' = [calls EXCEPT ![i] =
                IF valid.threw
                THEN Finish(call, Throw(valid.error))
                ELSE [call EXCEPT !.log = <<writeRequest(tool, args)>>]]
    /\ UNCHANGED <<clock, watchTimestamps, raindrops, nextHighlightId>>

\* the request of the write tool in slot i is answered
WriteRespond(i) ==
    /\ calls[i].pc = "await-write"
    /\ \E response \in FailureResponses \cup {OkResponse(WriteOkBody(calls[i].tool))} :
        LET result == request(response)
            call == Answered(calls[i], result)
        IN  calls' = [calls EXCEPT ![i] =
                IF result.threw
                THEN Finish(call, Throw(result.error))
                ELSE Finish(call, Return(writeResponse(call.tool, call.args, result.value)))]
    /\ UNCHANGED <<clock, watchTimestamps, raindrops, nextHighlightId>>

-----------------------------------------------------------------------------
(* empty-trash *)

\* the schema admits confirm = true alone; the handler tests what it is given
EmptyTrashArgs == {[confirm |-> TRUE], [confirm |-> FALSE], <<>>}

\* a variant of emptyTrashConfirmed that takes every call as confirmed
emptyTrashConfirmed_always(args) == TRUE

\* `if (!confirm)` negated
emptyTrashConfirmed(args) == Has(args, "confirm") /\ args.confirm

emptyTrashRequest ==
    Fetch(buildUrl(<<"/collection/", TRASH_COLLECTION_ID>>, NoParams), "DELETE")

EmptyTrashStart(i) ==
    /\ calls[i].pc = "idle"
    /\ \E args \in EmptyTrashArgs :
        LET call == [tool |-> "empty-trash", pc |-> "await-trash", args |-> args,
                     log |-> <<>>, loc |-> <<>>,
                     ghost |-> [at |-> clock, answers |-> <<>>]]
        IN  calls' = [calls EXCEPT ![i] =
                IF ~emptyTrashConfirmed(args)
                THEN Finish(call, Throw(Error(
                        "You must set confirm=true to empty the trash. This action is irreversible.")))
                ELSE [call EXCEPT !.log = <<emptyTrashRequest>>]]
    /\ UNCHANGED <<clock, watchTimestamps, raindrops, nextHighlightId>>

EmptyTrashRespond(i) ==
    /\ calls[i].pc = "await-trash"
    /\ \E response \in FailureResponses \cup {OkResponse([result |-> TRUE])} :
        LET result == request(response)
            call == Answered(calls[i], result)
        IN  calls' = [calls EXCEPT ![i] =
                IF result.threw
                THEN Finish(call, Throw(result.error))
                ELSE Finish(call, Return(createSuccessResponse(
                        "Trash emptied successfully. All items have been permanently deleted.")))]
    /\ UNCHANGED <<clock, watchTimestamps, raindrops, nextHighlightId>>

-----------------------------------------------------------------------------
(* upload-file *)

\* 300 * 1024 * 1024
maxSize == 300 * 1024 * 1024

mimeTypes ==
    ".pdf" :> "application/pdf" @@ ".png" :> "image/png" @@ ".jpg" :> "image/jpeg"
    @@ ".jpeg" :> "image/jpeg" @@ ".gif" :> "image/gif" @@ ".webp" :> "image/webp"
    @@ ".mp4" :> "video/mp4" @@ ".mov" :> "video/quicktime" @@ ".webm" :> "video/webm"

\* the extensions of the paths of the model, as extname returns them
Extensions == {".pdf", ".PDF", ".txt", ".exe", ""}

\* String.prototype.toLowerCase on these
toLowerCase(ext) == IF ext = ".PDF" THEN ".pdf" ELSE ext

\* what the file system holds at a path: nothing, or a file of some size
LocalFiles ==
    {[path |-> [base |-> "f", ext |-> e], exists |-> FALSE, size |-> 0] : e \in Extensions}
    \cup {[path |-> [base |-> "f", ext |-> e], exists |-> TRUE, size |-> n] :
            e \in Extensions, n \in {0, maxSize, maxSize + 1}}

UploadFileArgs ==
    LET plain == {[minimal |-> m] : m \in BOOLEAN}
    IN  plain
        \cup {With(a, "title", "t") : a \in plain}
        \cup {With(a, "title", "") : a \in plain}
        \cup {With(With(a, "tags", <<"x">>), "collectionId", 0) : a \in plain}

\* a variant of uploadTypeSupported that lets every extension through
uploadTypeSupported_any(ext) == TRUE

\* `contentType` is truthy: the extension is a key of mimeTypes
uploadTypeSupported(ext) == ext \in DOMAIN mimeTypes

\* uploadFile before its request: the error of the first check that fails, or
\* the content type
uploadCheck(file) ==
    LET ext == toLowerCase(file.path.ext)
    IN  IF ~file.exists
        THEN Throw(Error(<<"File not found: ", file.path>>))
        ELSE IF file.size > maxSize
             THEN Throw(Error(<<"File too large: ", file.size, " bytes (max ", maxSize,
                                " bytes)">>))
             ELSE IF ~uploadTypeSupported(ext)
                  THEN Throw(Error(<<"Unsupported file type: ", ext>>))
                  ELSE Return(IF ext \in DOMAIN mimeTypes THEN mimeTypes[ext]
                              ELSE "undefined")

\* the multipart request: the Authorization header alone, the form as body
uploadFileRequest(file, contentType, args) ==
    [url |-> [base |-> API_BASE_URL, path |-> "/raindrop/file", params |-> NoParams],
     method |-> "PUT",
     headers |-> [Authorization |-> <<"Bearer ", AUTH_TOKEN>>],
     body |-> [form |-> WithIf(Has(args, "collectionId"),
                               [file |-> [path |-> file.path, type |-> contentType]],
                               "collectionId",
                               IF Has(args, "collectionId") THEN args.collectionId ELSE 0)]]

\* a variant of uploadUpdates that never updates the uploaded bookmark
uploadUpdates_never(args, result) == FALSE

\* `(title || tags) && result.item?._id`
uploadUpdates(args, result) ==
    /\ TruthyString(args, "title") \/ Has(args, "tags")
    /\ Has(result, "item")
    /\ Has(result.item, "_id")

\* updateData of the handler
uploadUpdateData(args) ==
    LET d1 == WithIf(TruthyString(args, "title"), <<>>, "title",
                     IF Has(args, "title") THEN args.title ELSE "")
    IN  WithIf(Has(args, "tags"), d1, "tags", IF Has(args, "tags") THEN args.tags ELSE <<>>)

\* what the service answers to an upload it accepts: the new bookmark, or an
\* envelope without one
UploadOkBodies ==
    {[result |-> TRUE, item |-> [_id |-> 7, title |-> QuotedTitle]], [result |-> TRUE]}

\* the upload-file tool is invoked: uploadFile checks the file and runs to the
\* await of its request, or throws
UploadFileStart(i) ==
    /\ calls[i].pc = "idle"
    /\ \E args \in UploadFileArgs : \E file \in LocalFiles :
        LET call == [tool |-> "upload-file", pc |-> "await-upload",
                     args |-> With(args, "filePath", file.path), log |-> <<>>,
                     loc |-> [file |-> file],
                     ghost |-> [at |-> clock, answers |-> <<>>]]
            checked == uploadCheck(file)
        IN  calls' = [calls EXCEPT ![i] =
                IF checked.threw
                THEN Finish(call, Throw(checked.error))
                ELSE [call EXCEPT !.log = <<uploadFileRequest(file, checked.value, args)>>]]
    /\ UNCHANGED <<clock, watchTimestamps, raindrops, nextHighlightId>>

\* the upload is answered: fetch rejects, or handleResponse takes the response;
\* the handler then updates the new bookmark, or returns
UploadFileRespond(i) ==
    /\ calls[i].pc = "await-upload"
    /\ \E response \in FailureResponses \cup {OkResponse(b) : b \in UploadOkBodies} :
        LET result == IF response.rejected THEN Throw(Error("fetch failed"))
                      ELSE handleResponse(response)
            call == Answered(calls[i], result)
        IN  calls' = [calls EXCEPT ![i] =
                IF result.threw
                THEN Finish(call, Throw(result.error))
                ELSE IF uploadUpdates(call.args, result.value)
                     THEN [call EXCEPT
                            !.pc = "await-retitle",
                            !.log = Append(@, updateRaindropRequest(result.value.item._id,
                                                    uploadUpdateData(call.args)))]
                     ELSE Finish(call, Return(handleMinimalResponse(result.value,
                                                                    call.args.minimal)))]
    /\ UNCHANGED <<clock, watchTimestamps, raindrops, nextHighlightId>>

\* the update of the uploaded bookmark is answered
UploadUpdateRespond(i) ==
    /\ calls[i].pc = "await-retitle"
    /\ \E response \in FailureResponses \cup
            {OkResponse([result |-> TRUE, item |-> [_id |-> 7, title |-> QuotedTitle]])} :
        LET updatedResult == request(response)
            call == Answered(calls[i], updatedResult)
        IN  calls' = [calls EXCEPT ![i] =
                IF updatedResult.threw
                THEN Finish(call, Throw(updatedResult.error))
                ELSE Finish(call, Return(handleMinimalResponse(updatedResult.value,
                                                               call.args.minimal)))]
    /\ UNCHANGED <<clock, watchTimestamps, raindrops, nextHighlightId>>

-----------------------------------------------------------------------------
(* get-cache *)

\* the bookmarks GET /raindrop/{id} can return: without a cache descriptor,
\* with one without status, with one in each status
CacheItems(id) ==
    {[_id |-> id, title |-> QuotedTitle],
     [_id |-> id, title |-> QuotedTitle, cache |-> <<>>]}
    \cup {[_id |-> id, title |-> QuotedTitle, cache |-> [status |-> st]] :
            st \in {"ready", "retry", "failed", ""}}

\* `!cache || cache.status !== "ready"` negated
cacheReady(item) ==
    Has(item, "cache") /\ Has(item.cache, "status") /\ item.cache.status = "ready"

\* cache?.status || "not found"
cacheStatusText(item) ==
    IF Has(item, "cache") THEN FirstTruthy(item.cache, "status", "not found")
    ELSE "not found"

cacheNotReady(raindropId, item) ==
    Error(<<"Cache not available for raindrop ", raindropId, ". Status: ",
            cacheStatusText(item),
            ". Permanent copy must be enabled and ready for this bookmark.">>)

\* the request for the cached copy: redirects are not followed
cacheRequest(raindropId) ==
    [url |-> [base |-> API_BASE_URL, path |-> <<"/raindrop/", raindropId, "/cache">>,
              params |-> NoParams],
     method |-> "GET",
     headers |-> [Authorization |-> <<"Bearer ", AUTH_TOKEN>>],
     redirect |-> "manual"]

\* what can come back for it: a rejection, or a status with or without a
\* Location header, whose value may be empty
CacheResponses ==
    {[rejected |-> TRUE]}
    \cup {[rejected |-> FALSE, status |-> st] : st \in {200, 302, 307, 404}}
    \cup {[rejected |-> FALSE, status |-> st, Location |-> l] :
            st \in {200, 302, 307, 404}, l \in {"", "https://s3/copy"}}

\* a variant of cacheRedirects that takes every 3xx status
cacheRedirects_any3xx(status) == status >= 300 /\ status <= 399

\* response.status === 307
cacheRedirects(status) == status = 307

\* getCacheUrl after its second await
cacheUrlOf(response) ==
    IF response.rejected
    THEN Throw(Error("fetch failed"))
    ELSE IF cacheRedirects(response.status) /\ Has(response, "Location")
             /\ response.Location # ""
         THEN Return([url |-> response.Location, status |-> "ready"])
         ELSE Throw(Error(<<"Unexpected response when getting cache URL: ",
                            response.status>>))

GetCacheStart(i) ==
    /\ calls[i].pc = "idle"
    /\ \E id \in RaindropIds :
        calls' = [calls EXCEPT ![i] =
            [tool |-> "get-cache", pc |-> "await-raindrop", args |-> [raindropId |-> id],
             log |-> <<getRaindropRequest(id)>>, loc |-> <<>>,
             ghost |-> [at |-> clock, answers |-> <<>>]]]
    /\ UNCHANGED <<clock, watchTimestamps, raindrops, nextHighlightId>>

\* the bookmark arrives: getCacheUrl throws, or asks for the cached copy
GetCacheRaindropRespond(i) ==
    /\ calls[i].pc = "await-raindrop"
    /\ \E response \in FailureResponses \cup
            {OkResponse([result |-> TRUE, item |-> it]) :
                it \in CacheItems(calls[i].args.raindropId)} :
        LET raindrop == request(response)
            call == Answered(calls[i], raindrop)
        IN  calls' = [calls EXCEPT ![i] =
                IF raindrop.threw
                THEN Finish(call, Throw(raindrop.error))
                ELSE IF ~cacheReady(raindrop.value.item)
                     THEN Finish([call EXCEPT !.loc = [item |-> raindrop.value.item]],
                                 Throw(cacheNotReady(call.args.raindropId,
                                                     raindrop.value.item)))
                     ELSE [call EXCEPT
                            !.pc = "await-cache",
                            !.loc = [item |-> raindrop.value.item],
                            !.log = Append(@, cacheRequest(call.args.raindropId))]]
    /\ UNCHANGED <<clock, watchTimestamps, raindrops, nextHighlightId>>

\* the cache request is answered
GetCacheRespond(i) ==
    /\ calls[i].pc = "await-cache"
    /\ \E response \in CacheResponses :
        LET result == cacheUrlOf(response)
            call == [Answered(calls[i], result) EXCEPT
                        !.loc = [item |-> calls[i].loc.item, response |-> response]]
        IN  calls' = [calls EXCEPT ![i] =
                IF result.threw
                THEN Finish(call, Throw(result.error))
                ELSE Finish(call, Return(createJsonResponse(result.value)))]
    /\ UNCHANGED <<clock, watchTimestamps, raindrops, nextHighlightId>>

-----------------------------------------------------------------------------
(* The write tools, empty-trash, upload-file and get-cache, one invocation  *)
(* at a time, on a bookmark that has one highlight                           *)

InitOps == InitTools

NextOps ==
    \/ \E i \in Slots : WriteStart(i)
    \/ \E i \in Slots : WriteRespond(i)
    \/ \E i \in Slots : EmptyTrashStart(i)
    \/ \E i \in Slots : EmptyTrashRespond(i)
    \/ \E i \in Slots : UploadFileStart(i)
    \/ \E i \in Slots : UploadFileRespond(i)
    \/ \E i \in Slots : UploadUpdateRespond(i)
    \/ \E i \in Slots : GetCacheStart(i)
    \/ \E i \in Slots : GetCacheRaindropRespond(i)
    \/ \E i \in Slots : GetCacheRespond(i)
    \/ \E i \in Slots : UpdateHighlightStart(i)
    \/ \E i \in Slots : DeleteHighlightStart(i)
    \/ \E i \in Slots : GetRaindropRespond(i)
    \/ \E i \in Slots : UpdateRaindropRespond(i)
    \/ \E i \in Slots : BulkStart(i)
    \/ \E i \in Slots : DelayElapsed(i)
    \/ \E i \in Slots : CreateRaindropRespond(i)
    \/ \E i \in Slots : Deliver(i)

SpecOps == InitOps /\ [][NextOps]_vars

-----------------------------------------------------------------------------
(* Properties of empty-trash, upload-file and get-cache *)

IsErrorResult(call) ==
    /\ call.pc = "done"
    /\ Has(call.result.response, "isError")
    /\ call.result.response.isError

\* the request is the DELETE of the trash pseudo-collection
IsTrashDelete(req) ==
    req.method = "DELETE" /\ req.url.path = <<"/collection/", -99>>

AllowedExtensions ==
    {".pdf", ".png", ".jpg", ".jpeg", ".gif", ".webp", ".mp4", ".mov", ".webm"}

\* the precondition of an upload that fails first, if one does
UploadFailure(file) ==
    IF ~file.exists THEN "File not found: "
    ELSE IF file.size > 314572800 THEN "File too large: "
    ELSE IF toLowerCase(file.path.ext) \notin AllowedExtensions THEN "Unsupported file type: "
    ELSE "none"

\* C12: an upload whose file is missing, is larger than the ceiling or has an
\* extension outside the allow-list (`.txt` among them) ends with the error of
\* that precondition, as an error result, with no request issued; any other
\* upload issues the PUT of the file as its first request.
C12_UploadChecksBeforeRequest ==
    \A i \in Slots :
        calls[i].tool = "upload-file"
        => LET call == calls[i]
               failure == UploadFailure(call.loc.file)
           IN  IF failure # "none"
               THEN /\ call.pc = "done"
                    /\ call.outcome.threw
                    /\ call.outcome.error.message[1] = failure
                    /\ IsErrorResult(call)
                    /\ call.log = <<>>
               ELSE /\ Len(call.log) >= 1
                    /\ call.log[1].method = "PUT"
                    /\ call.log[1].url.path = "/raindrop/file"

\* a file that exists, is small and is named *.txt was refused
C12_Witness ==
    \E i \in Slots :
        /\ calls[i].tool = "upload-file"
        /\ calls[i].loc.file.exists
        /\ calls[i].loc.file.size = 0
        /\ calls[i].loc.file.path.ext = ".txt"
        /\ IsErrorResult(calls[i])
        /\ calls[i].outcome.error.message = <<"Unsupported file type: ", ".txt">>
        /\ calls[i].log = <<>>

\* the status a bookmark's cache descriptor shows, or "not found"
ObservedCacheStatus(item) ==
    IF Has(item, "cache") /\ Has(item.cache, "status") /\ item.cache.status # ""
    THEN item.cache.status
    ELSE "not found"

\* the Location header of the response counts as present
Located(response, nonEmpty) ==
    /\ Has(response, "Location")
    /\ nonEmpty => response.Location # ""

\* the course of get-cache, with either reading of "the header is present"
CacheUrlResolution(nonEmpty) ==
    \A i \in Slots :
        calls[i].tool = "get-cache"
        => LET call == calls[i]
           IN  /\ Len(call.log) >= 1
               /\ call.log[1] = getRaindropRequest(call.args.raindropId)
               /\ ~Has(call.loc, "item") => Len(call.log) = 1
               /\ (Has(call.loc, "item") /\ ObservedCacheStatus(call.loc.item) # "ready")
                    => /\ call.pc = "done"
                       /\ call.outcome.threw
                       /\ call.outcome.error.message[1] = "Cache not available for raindrop "
                       /\ call.outcome.error.message[4] = ObservedCacheStatus(call.loc.item)
                       /\ Len(call.log) = 1
               /\ (Has(call.loc, "item") /\ ObservedCacheStatus(call.loc.item) = "ready")
                    => /\ Len(call.log) = 2
                       /\ call.log[2].redirect = "manual"
                       /\ call.log[2].url.path = <<"/raindrop/", call.args.raindropId, "/cache">>
               /\ (Has(call.loc, "response") /\ ~call.loc.response.rejected)
                    => IF call.loc.response.status = 307 /\ Located(call.loc.response, nonEmpty)
                       THEN /\ Returned(call)
                            /\ Payload(call).url = call.loc.response.Location
                       ELSE /\ call.pc = "done"
                            /\ call.outcome.threw
                            /\ call.outcome.error.message =
                                <<"Unexpected response when getting cache URL: ",
                                  call.loc.response.status>>

\* C18 (as stated): the bookmark is fetched first; a cache descriptor that is
\* absent or not `ready` ends the operation with the cache-not-ready error,
\* naming the status or "not found", and no cache request; otherwise one
\* request that does not follow redirects is issued, and the operation returns
\* the Location value exactly when the status is 307 and the header is present,
\* and fails with the unexpected-response error otherwise.
C18_CacheUrlAsStated == CacheUrlResolution(FALSE)

\* C18 (amended): as above, but the operation returns the Location value
\* exactly when the status is 307 and the header is present with a value that
\* is not empty.
C18_CacheUrlAmended == CacheUrlResolution(TRUE)

\* a ready bookmark, a 307 with a Location: the URL is returned after two requests
C18_Witness ==
    \E i \in Slots :
        /\ calls[i].tool = "get-cache"
        /\ Returned(calls[i])
        /\ Len(calls[i].log) = 2
        /\ calls[i].loc.response.status = 307
        /\ Payload(calls[i]) = [url |-> "https://s3/copy", status |-> "ready"]

-----------------------------------------------------------------------------
(* Properties of minimal mode *)

\* the tools that take a `minimal` flag
MinimalTools ==
    WriteTools \cup {"upload-file", "update-highlight", "delete-highlight",
                    "create-raindrops-bulk"}

\* the response is the literal acknowledgement: one text whose content is "ok"
\* (a text is a string, a sequence of parts or a serialised value)
IsOkLiteral(response) ==
    /\ DOMAIN response = {"content"}
    /\ Len(response.content) = 1
    /\ response.content[1].type = "text"
    /\ ToString(response.content[1].text) = ToString("ok")

\* the arguments with the flag the other way
Flipped(args) == [args EXCEPT !.minimal = ~@]

\* the requests of the invocation are those of the same invocation with the
\* flag the other way
SameRequestsEitherMode(call) ==
    IF call.tool \in WriteTools
    THEN call.log = IF writeValidation(call.tool, Flipped(call.args)).threw THEN <<>>
                    ELSE <<writeRequest(call.tool, Flipped(call.args))>>
    ELSE /\ \A k \in DOMAIN call.log : ~Has(call.log[k], "minimal")
         /\ call.pc = "done" => Len(call.log) = Len(call.ghost.answers)

\* minimal mode for the tools that acknowledge with the literal
LiteralMode(call) ==
    /\ SameRequestsEitherMode(call)
    /\ call.pc = "done" =>
        /\ call.outcome.threw <=> IsErrorResult(call)
        /\ FailedAnswers(call) # {} => call.outcome.threw
        /\ ~call.outcome.threw =>
            IF call.args.minimal
            THEN IsOkLiteral(call.result.response)
            ELSE ~IsOkLiteral(call.result.response)

\* C19 (as stated): for every tool with a `minimal` flag, a successful
\* invocation with minimal = true returns the literal acknowledgement and one
\* with minimal = false the real result; both modes issue the same requests,
\* and a failure yields the error result in both.
C19_MinimalAsStated ==
    \A i \in Slots :
        calls[i].tool \in MinimalTools => LiteralMode(calls[i])

\* C19 (amended): the above holds for every tool with a `minimal` flag but bulk
\* create.  Bulk create with minimal = true returns a digest of its counts
\* (success, created, failed, total) in place of the full report, never the
\* literal, and reports the items that failed inside that result in both
\* modes; its requests are the same in both modes.
C19_MinimalAmended ==
    \A i \in Slots :
        calls[i].tool \in MinimalTools
        => IF calls[i].tool # BulkTool
           THEN LiteralMode(calls[i])
           ELSE LET call == calls[i]
                IN  /\ SameRequestsEitherMode(call)
                    /\ \A k \in DOMAIN call.log : IsRequestOfItem(call, k)
                    /\ call.pc = "done" =>
                        /\ ~call.outcome.threw
                        /\ Payload(call).success = (FailedAnswers(call) = {})
                        /\ IF call.args.minimal
                           THEN Payload(call) =
                                    [success |-> FailedAnswers(call) = {},
                                     created |-> Len(call.ghost.answers)
                                                    - Cardinality(FailedAnswers(call)),
                                     failed |-> Cardinality(FailedAnswers(call)),
                                     total |-> Len(call.args.raindrops)]
                           ELSE /\ DOMAIN Payload(call) \in
                                    {{"success", "summary", "created"},
                                     {"success", "summary", "created", "errors"}}
                                /\ Len(Payload(call).created)
                                    = Len(call.ghost.answers) - Cardinality(FailedAnswers(call))

\* an upload with minimal = true whose two requests were answered returned the
\* literal
C19_Witness ==
    \E i \in Slots :
        /\ calls[i].tool = "upload-file"
        /\ calls[i].args.minimal
        /\ Returned(calls[i])
        /\ Len(calls[i].log) = 2
        /\ IsOkLiteral(calls[i].result.response)

-----------------------------------------------------------------------------
(* Properties of updateHighlight and createHighlight *)

\* the first index of the array whose record has the id, 0 when none has
TargetIndex(highlights, id) ==
    IF HasHighlight(highlights, id)
    THEN CHOOSE k \in DOMAIN highlights :
            /\ Has(highlights[k], "_id") /\ highlights[k]._id = id
            /\ \A j \in 1..(k - 1) : ~(Has(highlights[j], "_id") /\ highlights[j]._id = id)
    ELSE 0

\* C21: updateHighlight on a bookmark whose fetched array holds the id issues
\* exactly one update; its array has the length and order of the fetched one,
\* every element but the target unchanged, and the target with each of text,
\* color and note replaced by the supplied value where one was supplied (an
\* empty string included) and kept where none was; the target keeps its id and
\* gains no other field.
C21_UpdateReplacesSuppliedSubfields ==
    \A i \in Slots :
        (/\ calls[i].tool = "update-highlight"
         /\ Fetched(calls[i])
         /\ HasHighlight(calls[i].loc.fetched, calls[i].args.highlightId))
        => LET call == calls[i]
               fetched == call.loc.fetched
               target == TargetIndex(fetched, call.args.highlightId)
               written == WrittenHighlights(call, 2)
               updates == call.args.updates
           IN  /\ PutRequests(call) = {2}
               /\ Len(call.log) = 2
               /\ call.log[2].url.path = <<"/raindrop/", call.args.raindropId>>
               /\ DOMAIN call.log[2].body.json = {"highlights"}
               /\ Len(written) = Len(fetched)
               /\ \A k \in DOMAIN fetched : k # target => written[k] = fetched[k]
               /\ DOMAIN written[target] = DOMAIN fetched[target]
               /\ written[target]._id = fetched[target]._id
               /\ \A f \in {"text", "color", "note"} :
                    written[target][f] = IF Has(updates, f) THEN updates[f]
                                         ELSE fetched[target][f]

\* an update that supplied only an empty note, of a highlight that had a note,
\* the second of two
C21_Witness ==
    \E i \in Slots :
        /\ calls[i].tool = "update-highlight"
        /\ Returned(calls[i])
        /\ calls[i].args.updates = [note |-> ""]
        /\ Len(calls[i].loc.fetched) = 2
        /\ TargetIndex(calls[i].loc.fetched, calls[i].args.highlightId) = 2
        /\ calls[i].loc.fetched[2].note = "n"
        /\ WrittenHighlights(calls[i], 2)[2].note = ""
        /\ WrittenHighlights(calls[i], 2)[2].text = "foo"

\* the highlight array of a stored bookmark, empty when it has none
RemoteHighlightsOf(item) == IF "highlights" \in DOMAIN item THEN item.highlights ELSE <<>>

\* the value of an optional argument, or its default when it was not supplied
SuppliedOr(args, f, default) == IF Has(args, f) THEN args[f] ELSE default

\* C22: createHighlight first fetches the bookmark; when the fetch fails it
\* ends in failure with no update issued; otherwise it issues exactly one
\* update whose array is the fetched array (empty when the bookmark has none),
\* every element unchanged and in order, followed by one record of the
\* supplied text, the supplied color or `yellow`, and the supplied note or the
\* empty string.
C22_CreateAppendsOneRecord ==
    \A i \in Slots :
        calls[i].tool = "create-highlight"
        => LET call == calls[i]
               id == call.args.raindropId
           IN  /\ call.log[1] = getRaindropRequest(id)
               /\ (call.ghost.answers # <<>> /\ call.ghost.answers[1] = "failed")
                    => /\ call.pc = "done"
                       /\ call.outcome.threw
                       /\ Len(call.log) = 1
               /\ (call.ghost.answers # <<>> /\ call.ghost.answers[1] = "ok")
                    => LET fetched == call.loc.fetched
                           written == WrittenHighlights(call, 2)
                       IN  /\ Len(call.log) = 2
                           /\ PutRequests(call) = {2}
                           /\ call.log[2].url.path = <<"/raindrop/", id>>
                           /\ DOMAIN call.log[2].body.json = {"highlights"}
                           /\ fetched = RemoteHighlightsOf(call.ghost.pre[id])
                           /\ Len(written) = Len(fetched) + 1
                           /\ \A k \in DOMAIN fetched : written[k] = fetched[k]
                           /\ written[Len(written)] =
                                [text |-> call.args.text,
                                 color |-> SuppliedOr(call.args, "color", "yellow"),
                                 note |-> SuppliedOr(call.args, "note", "")]

\* a create without color and note, on a bookmark that had one highlight
C22_Witness ==
    \E i \in Slots :
        /\ calls[i].tool = "create-highlight"
        /\ Returned(calls[i])
        /\ ~Has(calls[i].args, "color")
        /\ Len(calls[i].loc.fetched) = 1
        /\ WrittenHighlights(calls[i], 2) =
                Append(calls[i].loc.fetched, [text |-> "foo", color |-> "yellow", note |-> ""])

-----------------------------------------------------------------------------
(* Properties of the bulk loop *)

\* the requests the invocation had issued, none before it was invoked
RequestsOf(call) == IF call.pc = "idle" THEN <<>> ELSE call.log

\* one step of slot i, as far as the order of a bulk invocation goes
BulkOrderStep(i) ==
    LET before == calls[i]
        after == calls'[i]
    IN  after.tool = BulkTool
        => /\ \A k \in DOMAIN after.log : IsRequestOfItem(after, k)
           /\ Len(after.log) - Len(after.ghost.answers) \in {0, 1}
           /\ after.pc = "await-post" <=> Len(after.log) - Len(after.ghost.answers) = 1
           /\ Len(after.log) > Len(RequestsOf(before))
                => /\ Len(after.log) = Len(RequestsOf(before)) + 1
                   /\ IF Len(after.log) = 1 THEN before.pc = "idle" ELSE before.pc = "delay"
           /\ (after.pc = "delay" /\ before.pc # "delay")
                => /\ before.pc = "await-post"
                   /\ Len(after.log) >= 1
                   /\ Len(after.log) = Len(after.ghost.answers)

\* C23: the k-th request of a bulk invocation is that of the k-th item of the
\* list and at most one request is outstanding at any time; the first request
\* is issued by the invocation itself, with no delay step before it, and every
\* later request is issued by the step that ends a delay, a delay that began
\* when the request before it was answered - whether it succeeded or failed.
C23_BulkOrderAndDelays == [][\A i \in Slots : BulkOrderStep(i)]_vars

\* the first item has failed, continueOnError is true, and the invocation is
\* in the delay before the second item
C23_Witness ==
    \E i \in Slots :
        /\ calls[i].tool = BulkTool
        /\ calls[i].pc = "delay"
        /\ calls[i].args.continueOnError
        /\ calls[i].ghost.answers = <<"failed">>
        /\ Len(calls[i].log) = 1

\* the messages of the failures a request can end in, as texts
FailureMessageTexts == {ToString(request(response).error.message) : response \in FailureResponses}

\* the entries are those of the items whose request failed, in list order,
\* each with the 0-based index of its item, its link and the failure's message
ErrorsOfFailedItems(call, errors) ==
    /\ Len(errors) = Cardinality(FailedAnswers(call))
    /\ {errors[j].index + 1 : j \in DOMAIN errors} = FailedAnswers(call)
    /\ \A j \in DOMAIN errors :
        /\ DOMAIN errors[j] = {"index", "link", "error"}
        /\ errors[j].link = call.args.raindrops[errors[j].index + 1].link
        /\ ToString(errors[j].error) \in FailureMessageTexts
        /\ \A k \in DOMAIN errors : j < k => errors[j].index < errors[k].index

\* C24: a bulk invocation with continueOnError = true that has ended has
\* requested every item of the list once, in order, however many failed; it
\* has recorded one entry (index, link, message) per failed item, in list
\* order; successful + failed = total; and it has returned a result that is
\* not an error result, also when every item failed.
C24_ContinueOnErrorAttemptsAll ==
    \A i \in Slots :
        (calls[i].tool = BulkTool /\ calls[i].pc = "done" /\ calls[i].args.continueOnError)
        => LET call == calls[i]
               results == call.loc.results
               total == Len(call.args.raindrops)
           IN  /\ Len(call.log) = total
               /\ Len(call.ghost.answers) = total
               /\ \A k \in DOMAIN call.log : IsRequestOfItem(call, k)
               /\ ErrorsOfFailedItems(call, results.errors)
               /\ results.failed = Cardinality(FailedAnswers(call))
               /\ results.successful + results.failed = total
               /\ results.total = total
               /\ ~call.outcome.threw
               /\ ~Has(call.result.response, "isError")
               /\ BulkSummary(call) = [total |-> total, successful |-> results.successful,
                                       failed |-> results.failed]
               /\ Payload(call).success = (results.failed = 0)
               /\ (~call.args.minimal /\ results.failed > 0)
                    => Payload(call).errors = results.errors

\* every item of a list of three failed and the invocation returned its report
C24_Witness ==
    \E i \in Slots :
        /\ calls[i].tool = BulkTool
        /\ Returned(calls[i])
        /\ calls[i].args.continueOnError
        /\ ~calls[i].args.minimal
        /\ calls[i].ghost.answers = <<"failed", "failed", "failed">>
        /\ Len(Payload(calls[i]).errors) = 3
        /\ Payload(calls[i]).summary = [total |-> 3, successful |-> 0, failed |-> 3]

\* C29: at every point of a bulk invocation and at its end, successful +
\* failed is the number of items attempted so far and is at most total;
\* `created` has `successful` elements and `errors` has `failed` elements with
\* strictly increasing indices; the reported `success` is true exactly when
\* failed = 0.
C29_BulkCounters ==
    \A i \in Slots :
        calls[i].tool = BulkTool
        => LET call == calls[i]
               results == call.loc.results
               attempted == Len(call.ghost.answers)
           IN  /\ results.total = Len(call.args.raindrops)
               /\ results.successful + results.failed = attempted
               /\ attempted <= results.total
               /\ results.successful = attempted - Cardinality(FailedAnswers(call))
               /\ Len(results.created) = results.successful
               /\ Len(results.errors) = results.failed
               /\ \A j, k \in DOMAIN results.errors :
                    j < k => results.errors[j].index < results.errors[k].index
               /\ call.pc = "done"
                    => /\ Payload(call).success = (results.failed = 0)
                       /\ BulkSummary(call) =
                            [total |-> results.total, successful |-> results.successful,
                             failed |-> results.failed]

\* in the middle of the loop, after one item created and one failed
C29_Witness ==
    \E i \in Slots :
        /\ calls[i].tool = BulkTool
        /\ calls[i].pc = "delay"
        /\ calls[i].loc.results.successful = 1
        /\ calls[i].loc.results.failed = 1
        /\ calls[i].loc.results.total = 3
        /\ calls[i].loc.results.errors[1].index = 1

-----------------------------------------------------------------------------
(* Properties of the handlers' calls of the client *)

\* the tools whose client operation issues one request
OneRequestTools == WriteTools \cup {"empty-trash", "upload-file", BulkTool}

\* the tools whose client operation is a derived one: a fetch of the bookmark,
\* then at most one more request
DerivedTools == {"update-highlight", "delete-highlight", "get-cache"}

\* the number of client operations the handler has called that reached their
\* request
OperationsCalled(call) ==
    IF call.tool \in OneRequestTools THEN Len(call.log)
    ELSE IF call.log = <<>> THEN 0 ELSE 1

\* the requests of a derived operation: the fetch of the bookmark first, and
\* no more than two
IsDerivedOperation(call) ==
    /\ Len(call.log) \in {1, 2}
    /\ call.log[1] = getRaindropRequest(call.args.raindropId)

\* upload-file was asked to retitle or tag the bookmark
WantsUpdate(args) == (Has(args, "title") /\ args.title # "") \/ Has(args, "tags")

\* C26 (as stated): no invocation of a tool has its handler call a second
\* client operation; in particular upload-file issues the request of
\* uploadFile alone, whatever title and tags it was given.
C26_OneOperationAsStated ==
    \A i \in Slots :
        calls[i].tool \in OneRequestTools \cup DerivedTools
        => /\ OperationsCalled(calls[i]) <= 1
           /\ calls[i].tool \in DerivedTools => IsDerivedOperation(calls[i])

\* C26 (amended): every handler but those of upload-file and bulk create calls
\* at most one client operation.  upload-file calls uploadFile and then, when a
\* title that is not empty or tags were supplied and the upload returned a
\* bookmark with an id, updateRaindrop on that bookmark with the supplied title
\* and tags - and never otherwise; bulk create calls createRaindrop once per
\* item it attempts.
C26_OneOperationAmended ==
    \A i \in Slots :
        calls[i].tool \in OneRequestTools \cup DerivedTools
        => LET call == calls[i]
           IN  CASE call.tool = "upload-file" ->
                        /\ Len(call.log) <= 2
                        /\ Len(call.log) >= 1 => call.log[1].url.path = "/raindrop/file"
                        /\ Len(call.log) = 2
                            => /\ call.ghost.answers[1] = "ok"
                               /\ WantsUpdate(call.args)
                               /\ call.log[2].method = "PUT"
                               /\ call.log[2].url.path[1] = "/raindrop/"
                               /\ DOMAIN call.log[2].body.json =
                                    {f \in {"title", "tags"} :
                                        Has(call.args, f) /\ (f = "title" => call.args.title # "")}
                               /\ \A f \in DOMAIN call.log[2].body.json :
                                    call.log[2].body.json[f] = call.args[f]
                        /\ (Returned(call) /\ Len(call.log) = 1 /\ ~call.args.minimal)
                            => ~(WantsUpdate(call.args) /\ Has(Payload(call), "item"))
                  [] call.tool = BulkTool ->
                        /\ Len(call.log) <= Len(call.args.raindrops)
                        /\ \A k \in DOMAIN call.log : IsRequestOfItem(call, k)
                  [] call.tool \in DerivedTools ->
                        IsDerivedOperation(call)
                  [] OTHER -> Len(call.log) <= 1

\* an upload with a title: the file was uploaded, then the bookmark updated
C26_Witness ==
    \E i \in Slots :
        /\ calls[i].tool = "upload-file"
        /\ Returned(calls[i])
        /\ Has(calls[i].args, "title")
        /\ calls[i].args.title = "t"
        /\ calls[i].ghost.answers = <<"ok", "ok">>
        /\ calls[i].log[1].url.path = "/raindrop/file"
        /\ calls[i].log[2].url.path = <<"/raindrop/", 7>>
        /\ calls[i].log[2].body.json = [title |-> "t"]

-----------------------------------------------------------------------------
(* Instances of RaindropClient: the one the module constructs with            *)
(* AUTH_TOKEN, and one more constructed with a token of the caller's choice   *)

\* requests a client issues before the model stops following it
MaxClientRequests == 3

\* tokens a client can be constructed with: that of the environment, another
ClientTokens == {AUTH_TOKEN, "other-token"}

\* the operations of the class, by the way they issue their request
ClientOperations ==
    {"getRaindrop", "exportCollection", "uploadFile", "importBookmarksFile", "getCacheUrl"}

\* new RaindropClient(token)
NewClient(token) ==
    [tool |-> "RaindropClient", pc |-> "ready", args |-> [token |-> token],
     headers |-> headers(token), log |-> <<>>, loc |-> <<>>]

\* request(): fetchFn(url, { ...options, headers: this.headers })
clientFetch(this, url, method) ==
    [url |-> url, method |-> method, headers |-> this.headers]

\* exportCollection: fetchFn(url, { headers: this.headers })
exportRequest(this, collectionId, format) ==
    [url |-> [base |-> API_BASE_URL,
              path |-> <<"/raindrops/", collectionId, "/export.", format>>,
              params |-> NoParams],
     headers |-> this.headers]

\* importBookmarksFile: the POST of the form
importRequest(path) ==
    [url |-> [base |-> API_BASE_URL, path |-> "/import/file", params |-> NoParams],
     method |-> "POST",
     headers |-> [Authorization |-> <<"Bearer ", AUTH_TOKEN>>],
     body |-> [form |-> [import |-> [path |-> path, type |-> "text/html"]]]]

\* the request the operation issues first
clientRequestOf(this, operation) ==
    CASE operation = "getRaindrop" ->
            clientFetch(this, buildUrl(<<"/raindrop/", 1>>, NoParams), "GET")
      [] operation = "exportCollection" -> exportRequest(this, 0, "html")
      [] operation = "uploadFile" ->
            uploadFileRequest([path |-> [base |-> "f", ext |-> ".pdf"]],
                              mimeTypes[".pdf"], <<>>)
      [] operation = "importBookmarksFile" -> importRequest([base |-> "b", ext |-> ".html"])
      [] operation = "getCacheUrl" ->
            clientFetch(this, buildUrl(<<"/raindrop/", 1>>, NoParams), "GET")

\* a second client is constructed
ConstructClient(i) ==
    /\ calls[i].pc = "idle"
    /\ \E token \in ClientTokens : calls' = [calls EXCEPT ![i] = NewClient(token)]
    /\ UNCHANGED <<clock, watchTimestamps, raindrops, nextHighlightId>>

\* an operation of the client in slot i is called and runs to its request
ClientCall(i) ==
    /\ calls[i].pc = "ready"
    /\ \E operation \in ClientOperations :
        /\ Len(calls[i].log) + (IF operation = "getCacheUrl" THEN 2 ELSE 1)
                <= MaxClientRequests
        /\ calls' = [calls EXCEPT ![i] =
                [@ EXCEPT !.pc = "await-client",
                          !.loc = [operation |-> operation],
                          !.log = Append(@, clientRequestOf(calls[i], operation))]]
    /\ UNCHANGED <<clock, watchTimestamps, raindrops, nextHighlightId>>

\* the request of the client in slot i is answered: the operation ends, or
\* getCacheUrl, having found the cache ready, asks for the cached copy
ClientRespond(i) ==
    /\ calls[i].pc = "await-client"
    /\ \E ready \in BOOLEAN :
        calls' = [calls EXCEPT ![i] =
            IF calls[i].loc.operation = "getCacheUrl" /\ ~Has(calls[i].loc, "item") /\ ready
            THEN [@ EXCEPT !.loc = [operation |-> "getCacheUrl", item |-> "ready"],
                           !.log = Append(@, cacheRequest(1))]
            ELSE [@ EXCEPT !.pc = "ready", !.loc = <<>>]]
    /\ UNCHANGED <<clock, watchTimestamps, raindrops, nextHighlightId>>

\* the client goes out of use
DropClient(i) ==
    /\ i # 1
    /\ calls[i].pc = "ready"
    /\ calls' = [calls EXCEPT ![i] = Idle]
    /\ UNCHANGED <<clock, watchTimestamps, raindrops, nextHighlightId>>

InitClients ==
    /\ clock = 0
    /\ watchTimestamps = EmptyMap
    /\ raindrops = <<>>
    /\ nextHighlightId = 1
    /\ calls = [i \in {1, 2} |-> IF i = 1 THEN NewClient(AUTH_TOKEN) ELSE Idle]

NextClients ==
    \/ \E i \in Slots : ConstructClient(i)
    \/ \E i \in Slots : ClientCall(i)
    \/ \E i \in Slots : ClientRespond(i)
    \/ \E i \in Slots : DropClient(i)

SpecClients == InitClients /\ [][NextClients]_vars

\* C30: every request a client has issued carries an Authorization header
\* whose value is the bearer token the client was constructed with.
C30_RequestsCarryOwnToken ==
    \A i \in Slots :
        calls[i].tool = "RaindropClient"
        => \A k \in DOMAIN calls[i].log :
            /\ Has(calls[i].log[k].headers, "Authorization")
            /\ calls[i].log[k].headers.Authorization = <<"Bearer ", calls[i].args.token>>

-----------------------------------------------------------------------------
(* Two watch-collection invocations on one collection that may overlap: plain *)
(* polls, each answered with an empty listing or with a failure                *)

RaceArgs == {[collectionId |-> 1]}

RaceFailures == {[rejected |-> TRUE]}

RaceListings == {<<>>}

InitWatchRace ==
    /\ clock = 0
    /\ watchTimestamps = EmptyMap
    /\ raindrops = <<>>
    /\ nextHighlightId = 1
    /\ calls = [i \in {1, 2} |-> Idle]

NextWatchRace ==
    \/ Tick
    \/ \E i \in Slots : WatchStartWith(i, RaceArgs)
    \/ \E i \in Slots : WatchRespondWith(i, RaceFailures, RaceListings) /\ UNCHANGED raindrops
    \/ \E i \in Slots : Deliver(i)

SpecWatchRace == InitWatchRace /\ [][NextWatchRace]_vars

\* C27: the cursor of a collection never moves to an earlier time: in every
\* step, a collection that had a cursor has one afterwards that is not earlier.
C27_CursorNeverMovesBack ==
    [][\A c \in DOMAIN watchTimestamps :
            /\ c \in DOMAIN watchTimestamps'
            /\ DateOf(watchTimestamps'[c]) >= DateOf(watchTimestamps[c])]_vars

-----------------------------------------------------------------------------
(* Polling a collection that changes: one client calls watch-collection again *)
(* and again with the collection id alone, and bookmarks are saved to the      *)
(* collection in between and while a call is in flight.  The service stamps a  *)
(* bookmark with the time it is saved and lists the collection newest first.   *)
(* Each bookmark carries a ghost record that no step reads: `late` tells that  *)
(* it was saved later than the instant the latest poll captured, `listed`     *)
(* that a listing served to a poll held it, and `reports` counts the results   *)
(* whose newItems held it: 0, 1, or 2 for two and more.                        *)

PollArgs == {[collectionId |-> 1]}

\* the instant captured by the latest poll of the collection that has started:
\* the `now` of the one in flight, else the stored cursor
LatestPollTime(collectionId) ==
    IF \E i \in Slots : calls[i].pc = "await" /\ calls[i].args.collectionId = collectionId
    THEN LET i == CHOOSE j \in Slots :
                    calls[j].pc = "await" /\ calls[j].args.collectionId = collectionId
         IN  DateOf(calls[i].loc.now)
    ELSE IF MapHas(watchTimestamps, collectionId)
         THEN DateOf(watchTimestamps[collectionId])
         ELSE NaN

\* a bookmark is saved to collection 1
CreateBookmark ==
    /\ Len(raindrops) < MaxItems
    /\ raindrops' = Append(raindrops,
            [_id |-> Len(raindrops) + 1, title |-> QuotedTitle,
             created |-> toISOString(clock),
             ghost |-> [late |-> LatestPollTime(1) # NaN /\ clock > LatestPollTime(1),
                        listed |-> FALSE, reports |-> 0]])
    /\ UNCHANGED <<clock, watchTimestamps, nextHighlightId, calls>>

\* GET /raindrops/1?sort=-created&perpage=50 as the service answers it: the
\* bookmarks of the collection, the latest first, at most `perpage` of them
ServedListing(perpage) ==
    LET n == Min(Len(raindrops), perpage)
    IN  [k \in 1..n |->
            LET b == raindrops[Len(raindrops) + 1 - k]
            IN  [_id |-> b._id, title |-> b.title, created |-> b.created]]

\* the listing request of the poll in slot i is answered with the collection as
\* it is now, and the ghost counters of the bookmarks are brought up to date
PollRespond(i) ==
    /\ WatchRespondWith(i, {}, {ServedListing(WATCH_PERPAGE)})
    /\ LET served == {b._id : b \in Range(ServedListing(WATCH_PERPAGE))}
           reported == {b._id : b \in Range(Payload(calls'[i]).newItems)}
       IN  raindrops' = [k \in DOMAIN raindrops |->
                [raindrops[k] EXCEPT
                    !.ghost.listed = @ \/ raindrops[k]._id \in served,
                    !.ghost.reports = IF raindrops[k]._id \in reported THEN Min(@ + 1, 2) ELSE @]]

InitPolls ==
    /\ clock = 0
    /\ watchTimestamps = EmptyMap
    /\ raindrops = <<>>
    /\ nextHighlightId = 1
    /\ calls = [i \in {1} |-> Idle]

NextPolls ==
    \/ Tick
    \/ CreateBookmark
    \/ \E i \in Slots : WatchStartWith(i, PollArgs) /\ raindrops' = raindrops
    \/ \E i \in Slots : PollRespond(i)
    \/ \E i \in Slots : Deliver(i)

SpecPolls == InitPolls /\ [][NextPolls]_vars

\* C28: over a sequence of polls that do not overlap and are all answered, no
\* bookmark is returned in newItems by two calls, and a bookmark saved later
\* than the instant the latest poll captured is returned by a call as soon as a
\* listing that holds it has been served.
C28_EachBookmarkReportedOnce ==
    \A k \in DOMAIN raindrops :
        /\ raindrops[k].ghost.reports <= 1
        /\ (raindrops[k].ghost.late /\ raindrops[k].ghost.listed)
                => raindrops[k].ghost.reports = 1

====
